---------------------------- MODULE Spec2Model ----------------------------
(***************************************************************************)
(* Layout table builders of write-fonts (ClassDefBuilder, the ClassDef     *)
(* encoder ClassDefBuilderImpl, CoverageTableBuilder, DeviceOrDeltas and   *)
(* the variation store, LookupBuilder) and the layout closure of           *)
(* read-fonts (CollectFeaturesContext, collect_features) as state machines.*)
(* Each builder has a specification of its own; the variables of the       *)
(* builders a specification does not drive keep their initial values.      *)
(***************************************************************************)
EXTENDS Integers, Sequences, FiniteSets, TLC

(***************************************************************************)
(* Bounds of the model.                                                    *)
(***************************************************************************)
\* ClassDefBuilder: glyph ids are 0..MaxGlyph, at most MaxCalls checked_add calls
MaxGlyph == 2
MaxCalls == 3
\* ClassDefBuilderImpl: glyph ids 0..MaxGid, class values 0..MaxClass,
\* input iterators of at most MaxPairs (glyph, class) pairs
MaxGid == 3
MaxClass == 2
MaxPairs == 3
\* CoverageTableBuilder: glyph ids 0..MaxCovGlyph, from_glyphs vectors of at
\* most MaxVec glyphs
MaxCovGlyph == 7
MaxVec == 3
\* deferred values: literal devices 1..MaxDevice, delta lists 1..MaxDeltas,
\* a variation store of at most MaxStore registrations
MaxDevice == 1
MaxDeltas == 2
MaxStore == 4
\* LookupBuilder: at most MaxSubtables subtable builders of at most MaxRules
\* rules each
MaxSubtables == 2
MaxRules == 2
\* closure: a query meets at most MaxItems items (of Script and of LangSys
\* loops together), LangSys offsets 1..MaxOffset
MaxItems == 4
MaxOffset == 2

\* calls made on one CollectFeaturesContext
MaxContextCalls == 3

(***************************************************************************)
(* Program constants.                                                      *)
(***************************************************************************)
\* u16 arithmetic is modulo 2^16 (`i as u16 + add_one`)
U16_MODULUS == 65536
\* std::mem::size_of::<u16>()
U16_LEN == 2
\* the ceilings of a closure query
MAX_SCRIPTS == 500
MAX_LANGSYS == 2000
MAX_FEATURE_INDICES == 1500
\* the required feature index of a LangSys without a required feature (0xFFFF)
NO_REQUIRED_FEATURE == 65535

VARIABLES
    \* ClassDefBuilder { classes, all_glyphs, use_class_0 }
    classes, all_glyphs, use_class_0,
    \* the checked_add calls made so far, each [cls, ret]
    calls,
    \* build_with_mapping: consumed flag and the returned (ClassDef, mapping)
    built, mapping, class_def,
    \* ClassDefBuilderImpl { items }: the iterator collected, the map, the table
    enc_pc, enc_input, items, enc_out,
    \* CoverageTableBuilder { glyphs }: position, the last two add calls
    \* (glyph, index returned, whether it was inserted), table
    cov_pc, glyphs, cov_added, cov_out,
    \* how the builder was constructed, and every glyph id given to it so far
    cov_ctor, cov_given,
    \* the VariationStoreBuilder; the DeviceOrDeltas last finalized and its result
    var_store, dod_in, dod_out,
    \* LookupBuilder<T> { flags, mark_set, subtables }: position, the type
    \* parameter, and the Lookup built
    lk_pc, lk_type, flags, mark_set, subtables, lookup,
    \* a closure query: position, the CollectFeaturesContext, the features
    \* argument and the font's FeatureList, whether the scripts and languages
    \* arguments are given
    clo_pc, c, features, feature_list, scripts, languages,
    \* the items of the font met so far, the items consumed by the loop over
    \* the LangSys of the current Script, the number of Script tables met,
    \* the items of the current one, whether it is met again
    steps, lang_ix, cur_script, cur_items, replay,
    \* the item processed last, the LangSys table read last, the offsets of
    \* the LangSys tables read so far, the value returned
    item, lang_sys, read_offsets, result,
    \* calls made on a CollectFeaturesContext by a caller of the crate: the
    \* call made last and what it returned, the number of calls, and the
    \* counters that have gone over their ceiling so far
    ctx_call, ctx_calls, ever_exceeded

cdb_vars == <<classes, all_glyphs, use_class_0, calls, built, mapping, class_def>>
enc_vars == <<enc_pc, enc_input, items, enc_out>>
cov_vars == <<cov_pc, glyphs, cov_added, cov_out, cov_ctor, cov_given>>
dev_vars == <<var_store, dod_in, dod_out>>
lk_vars == <<lk_pc, lk_type, flags, mark_set, subtables, lookup>>
builders_vars == <<cdb_vars, enc_vars, cov_vars>>
clo_vars == <<clo_pc, c, features, feature_list, scripts, languages, steps, lang_ix,
              cur_script, cur_items, replay, item, lang_sys, read_offsets, result>>
ctx_vars == <<ctx_call, ctx_calls, ever_exceeded>>
ext_vars == <<dev_vars, lk_vars, clo_vars, ctx_vars>>
vars == <<builders_vars, ext_vars>>

(***************************************************************************)
(* Helpers.                                                                *)
(***************************************************************************)
Range(s) == {s[i] : i \in DOMAIN s}

Min(S) == CHOOSE x \in S : \A y \in S : x <= y

Max(S) == CHOOSE x \in S : \A y \in S : y <= x

\* every sequence that lists each element of S exactly once
RECURSIVE Orderings(_)
Orderings(S) ==
    IF S = {} THEN {<<>>}
    ELSE UNION {{<<x>> \o p : p \in Orderings(S \ {x})} : x \in S}

\* every sequence over S of length at most n
RECURSIVE SeqsUpTo(_, _)
SeqsUpTo(S, n) ==
    IF n = 0 THEN {<<>>}
    ELSE LET shorter == SeqsUpTo(S, n - 1)
         IN  shorter \cup {Append(s, x) : s \in shorter, x \in S}

\* the elements of a set of integers in ascending order (an ordered-set iterator)
RECURSIVE Ascending(_)
Ascending(S) ==
    IF S = {} THEN <<>> ELSE <<Min(S)>> \o Ascending(S \ {Min(S)})

\* the value a table variable holds before build
NoTable == [format |-> 0]


(***************************************************************************)
(* ClassDefBuilderImpl: the ClassDef encoder.                              *)
(* A map (BTreeMap<GlyphId16, u16>) is a function on its key set.          *)
(* A ClassDef is [format |-> 1, start_glyph_id, class_value_array] or      *)
(* [format |-> 2, class_range_records].                                    *)
(***************************************************************************)
EmptyMap == [g \in {} |-> 0]

\* BTreeMap::insert: the value of an existing key is replaced
MapInsert(m, k, v) == [x \in DOMAIN m \cup {k} |-> IF x = k THEN v ELSE m[x]]

\* collect::<BTreeMap<_, _>>(): the pairs are inserted in iteration order
RECURSIVE collect_map(_, _)
collect_map(m, iter) ==
    IF iter = <<>> THEN m
    ELSE collect_map(MapInsert(m, Head(iter)[1], Head(iter)[2]), Tail(iter))

\* faulty variant: class 0 entries are not elided
from_iter_keep_zero(iter) == collect_map(EmptyMap, iter)

\* faulty variant: an entry of class 0 removes the glyph's earlier entry (last pair wins)
from_iter_last_wins(iter) ==
    LET all == collect_map(EmptyMap, iter)
    IN  [g \in {x \in DOMAIN all : all[x] # 0} |-> all[g]]

\* FromIterator<(GlyphId16, u16)> for ClassDefBuilderImpl
from_iter(iter) ==
    collect_map(EmptyMap, SelectSeq(iter, LAMBDA p : p[2] # 0))

\* super::are_sequential(gid1, gid2): gid2 directly follows gid1
are_sequential(gid1, gid2) == gid2 - gid1 = 1

\* the from_fn closure of iter_class_ranges run to exhaustion: keys are the
\* entries not yet visited (ascending), prev is <<>> (None) or <<range>>,
\* out the records yielded so far
RECURSIVE class_ranges_from(_, _, _, _)
class_ranges_from(values, keys, prev, out) ==
    IF keys = <<>>
    THEN IF prev = <<>> THEN out ELSE Append(out, prev[1])
    ELSE LET gid == Head(keys)
             class == values[gid]
             single == [start_glyph_id |-> gid, end_glyph_id |-> gid, class |-> class]
         IN  IF prev = <<>>
             THEN class_ranges_from(values, Tail(keys), <<single>>, out)
             ELSE IF are_sequential(prev[1].end_glyph_id, gid) /\ prev[1].class = class
             THEN class_ranges_from(values, Tail(keys),
                      <<[prev[1] EXCEPT !.end_glyph_id = gid]>>, out)
             ELSE class_ranges_from(values, Tail(keys), <<single>>, Append(out, prev[1]))

iter_class_ranges(values) ==
    class_ranges_from(values, Ascending(DOMAIN values), <<>>, <<>>)

FORMAT1_HEADER_LEN == U16_LEN * 3
FORMAT2_HEADER_LEN == U16_LEN * 2
CLASS_RANGE_RECORD_LEN == U16_LEN * 3

\* faulty variant: format 1 is also preferred on a tie
prefer_format_1_on_tie(its) ==
    IF DOMAIN its = {} THEN FALSE
    ELSE LET first == Min(DOMAIN its)
             last == Max(DOMAIN its)
             format1_array_len == (last - first) + 1
             len_format1 == FORMAT1_HEADER_LEN + format1_array_len * U16_LEN
             len_format2 == FORMAT2_HEADER_LEN
                                + Len(iter_class_ranges(its)) * CLASS_RANGE_RECORD_LEN
         IN  len_format1 <= len_format2

\* ClassDefBuilderImpl::prefer_format_1
prefer_format_1(its) ==
    IF DOMAIN its = {} THEN FALSE
    ELSE LET first == Min(DOMAIN its)
             last == Max(DOMAIN its)
             format1_array_len == (last - first) + 1
             len_format1 == FORMAT1_HEADER_LEN + format1_array_len * U16_LEN
             len_format2 == FORMAT2_HEADER_LEN
                                + Len(iter_class_ranges(its)) * CLASS_RANGE_RECORD_LEN
         IN  len_format1 < len_format2

\* ClassDefBuilderImpl::build
build(its) ==
    IF prefer_format_1(its)
    THEN LET first == IF DOMAIN its = {} THEN 0 ELSE Min(DOMAIN its)
             last == IF DOMAIN its = {} THEN 0 ELSE Max(DOMAIN its)
         IN  [format |-> 1,
              start_glyph_id |-> first,
              class_value_array |->
                  [i \in 1..(last - first + 1) |->
                      IF (first + i - 1) \in DOMAIN its THEN its[first + i - 1] ELSE 0]]
    ELSE [format |-> 2, class_range_records |-> iter_class_ranges(its)]

\* ClassDef::get: the class the built table gives a glyph, 0 when it has none
ClassDefGet(table, gid) ==
    IF table.format = 1
    THEN LET idx == gid - table.start_glyph_id
         IN  IF idx >= 0 /\ idx < Len(table.class_value_array)
             THEN table.class_value_array[idx + 1]
             ELSE 0
    ELSE LET hits == {i \in DOMAIN table.class_range_records :
                         /\ table.class_range_records[i].start_glyph_id <= gid
                         /\ gid <= table.class_range_records[i].end_glyph_id}
         IN  IF hits = {} THEN 0 ELSE table.class_range_records[Min(hits)].class

(***************************************************************************)
(* ClassDefBuilder.                                                        *)
(* A class (IntSet<GlyphId16>) is a set of glyph ids; classes is a set of  *)
(* classes (HashSet), mapping a function from classes to ids (HashMap).    *)
(***************************************************************************)
Glyphs == 0..MaxGlyph

\* the classes a caller may submit: every glyph set, the empty one included
Classes == SUBSET Glyphs

\* faulty variant: a class is accepted as soon as one of its glyphs is unassigned
can_add_any_free(cls) ==
    cls \in classes \/ \E gid \in cls : gid \notin all_glyphs

\* faulty variant: a class already committed is not recognised
can_add_no_dupes(cls) == \A gid \in cls : gid \notin all_glyphs

\* ClassDefBuilder::can_add
can_add(cls) ==
    cls \in classes \/ \A gid \in cls : gid \notin all_glyphs

\* faulty variant: the glyphs are marked assigned before the check
checked_add_marks_first(cls) ==
    /\ ~built
    /\ Len(calls) < MaxCalls
    /\ all_glyphs' = all_glyphs \cup cls
    /\ IF can_add(cls)
       THEN /\ classes' = classes \cup {cls}
            /\ calls' = Append(calls, [cls |-> cls, ret |-> TRUE])
       ELSE /\ classes' = classes
            /\ calls' = Append(calls, [cls |-> cls, ret |-> FALSE])
    /\ UNCHANGED <<use_class_0, built, mapping, class_def, enc_vars, cov_vars, ext_vars>>

\* faulty variant: a rejected class is committed all the same
checked_add_keeps_rejected(cls) ==
    /\ ~built
    /\ Len(calls) < MaxCalls
    /\ IF can_add(cls)
       THEN /\ all_glyphs' = all_glyphs \cup cls
            /\ classes' = classes \cup {cls}
            /\ calls' = Append(calls, [cls |-> cls, ret |-> TRUE])
       ELSE /\ all_glyphs' = all_glyphs
            /\ classes' = classes \cup {cls}
            /\ calls' = Append(calls, [cls |-> cls, ret |-> FALSE])
    /\ UNCHANGED <<use_class_0, built, mapping, class_def, enc_vars, cov_vars, ext_vars>>

\* ClassDefBuilder::checked_add; the call and its result are logged in calls
checked_add(cls) ==
    /\ ~built
    /\ Len(calls) < MaxCalls
    /\ IF can_add(cls)
       THEN /\ all_glyphs' = all_glyphs \cup cls
            /\ classes' = classes \cup {cls}
            /\ calls' = Append(calls, [cls |-> cls, ret |-> TRUE])
       ELSE /\ UNCHANGED <<all_glyphs, classes>>
            /\ calls' = Append(calls, [cls |-> cls, ret |-> FALSE])
    /\ UNCHANGED <<use_class_0, built, mapping, class_def, enc_vars, cov_vars, ext_vars>>

\* cls.iter().next().unwrap_or_default().to_u16(): the smallest glyph, 0 if none
first_glyph(cls) == IF cls = {} THEN 0 ELSE Min(cls)

\* faulty variant: ties in size are broken by the largest minimum glyph first
sort_key_leq_descending_first(a, b) ==
    \/ Cardinality(a) > Cardinality(b)
    \/ Cardinality(a) = Cardinality(b) /\ first_glyph(a) >= first_glyph(b)

\* faulty variant: the first glyph is left out of the sort key
sort_key_leq_size_only(a, b) == Cardinality(a) >= Cardinality(b)

\* the order of the sort key (Reverse(cls.len()), first glyph): a's key <= b's key
sort_key_leq(a, b) ==
    \/ Cardinality(a) > Cardinality(b)
    \/ Cardinality(a) = Cardinality(b) /\ first_glyph(a) <= first_glyph(b)

\* sort_unstable_by_key: every order of the classes that ascends in the key
\* (classes of equal key may come out in any order)
sort_unstable_by_key(S) ==
    {s \in Orderings(S) : \A i \in 1..(Len(s) - 1) : sort_key_leq(s[i], s[i + 1])}

\* Vec::dedup: consecutive equal elements are reduced to the first
RECURSIVE dedup(_)
dedup(s) ==
    IF Len(s) <= 1 THEN s
    ELSE IF s[1] = s[2] THEN dedup(Tail(s))
    ELSE <<s[1]>> \o dedup(Tail(s))

\* faulty variant: the negation is dropped, u16::from(self.use_class_0)
add_one_not_negated == IF use_class_0 THEN 1 ELSE 0

\* u16::from(!self.use_class_0)
add_one == IF use_class_0 THEN 0 ELSE 1

\* i as u16 + add_one, for the class at (0-based) position i of the sorted list
class_id(i) == ((i % U16_MODULUS) + add_one) % U16_MODULUS

\* enumerate().map(..).collect::<HashMap<_, _>>(): a class listed twice keeps
\* the id of its last position
enumerate_mapping(sorted) ==
    [cls \in Range(sorted) |->
        class_id(Max({i \in DOMAIN sorted : sorted[i] = cls}) - 1)]

\* mapping.iter().flat_map(..): the (glyph, id) pairs, the classes visited in
\* the given order, the glyphs of a class ascending
RECURSIVE flat_map_pairs(_, _)
flat_map_pairs(m, order) ==
    IF order = <<>> THEN <<>>
    ELSE LET cls == Head(order)
             gids == Ascending(cls)
         IN  [i \in DOMAIN gids |-> <<gids[i], m[cls]>>] \o flat_map_pairs(m, Tail(order))

\* ClassDefBuilder::build_with_mapping; consumes the builder.  The HashMap is
\* iterated in an unspecified order.
build_with_mapping ==
    /\ ~built
    /\ \E sorted \in sort_unstable_by_key(classes) :
         LET m == enumerate_mapping(dedup(sorted))
         IN  /\ mapping' = m
             /\ \E order \in Orderings(DOMAIN m) :
                  class_def' = build(from_iter(flat_map_pairs(m, order)))
    /\ built' = TRUE
    /\ UNCHANGED <<classes, all_glyphs, use_class_0, calls, enc_vars, cov_vars, ext_vars>>

(***************************************************************************)
(* ClassDefBuilderImpl as a state machine: an iterator of (glyph, class)   *)
(* pairs is collected, then the table is built.                            *)
(***************************************************************************)
EncGlyphs == 0..MaxGid

EncClasses == 0..MaxClass

\* the iterators a caller may collect: any pairs, in any order, glyphs and
\* classes repeated or not
EncInputs == SeqsUpTo(EncGlyphs \X EncClasses, MaxPairs)

\* iter.collect::<ClassDefBuilderImpl>()
enc_from_iter(iter) ==
    /\ enc_pc = "new"
    /\ enc_input' = iter
    /\ items' = from_iter(iter)
    /\ enc_pc' = "collected"
    /\ UNCHANGED <<enc_out, cdb_vars, cov_vars, ext_vars>>

\* builder.build()
enc_build ==
    /\ enc_pc = "collected"
    /\ enc_out' = build(items)
    /\ enc_pc' = "built"
    /\ UNCHANGED <<enc_input, items, cdb_vars, cov_vars, ext_vars>>

(***************************************************************************)
(* CoverageTableBuilder.                                                   *)
(* glyphs is the Vec<GlyphId16>; a CoverageTable is                        *)
(* [format |-> 1, glyph_array] or [format |-> 2, range_records].           *)
(***************************************************************************)
CovGlyphs == 0..MaxCovGlyph

\* the vectors a caller may pass to from_glyphs: unsorted, with repetitions
CovInputs == SeqsUpTo(CovGlyphs, MaxVec)

\* Vec::insert(ix, x), ix counted from 0
vec_insert(v, ix, x) == SubSeq(v, 1, ix) \o <<x>> \o SubSeq(v, ix + 1, Len(v))

\* sort_unstable on glyph ids: the same elements ascending, repetitions kept
RECURSIVE sort_unstable(_)
sort_unstable(v) ==
    IF v = <<>> THEN <<>>
    ELSE LET rest == sort_unstable(Tail(v))
             below == Cardinality({i \in DOMAIN rest : rest[i] < Head(v)})
         IN  vec_insert(rest, below, Head(v))

\* the loop of slice::binary_search: size halves until 1, base moves right
\* unless the probe is greater than the key
RECURSIVE binary_search_loop(_, _, _, _)
binary_search_loop(v, x, base, size) ==
    IF size > 1
    THEN LET half == size \div 2
             mid == base + half
         IN  binary_search_loop(v, x, IF v[mid + 1] > x THEN base ELSE mid, size - half)
    ELSE base

\* slice::binary_search(&x): [ok, ix], Ok(ix) a position of x, Err(ix) the
\* position where x is to be inserted; positions counted from 0
binary_search(v, x) ==
    IF Len(v) = 0 THEN [ok |-> FALSE, ix |-> 0]
    ELSE LET base == binary_search_loop(v, x, 0, Len(v))
         IN  IF v[base + 1] = x THEN [ok |-> TRUE, ix |-> base]
             ELSE [ok |-> FALSE, ix |-> base + (IF v[base + 1] < x THEN 1 ELSE 0)]

\* CoverageTableBuilder::default()
cov_default ==
    /\ cov_pc = "new"
    /\ glyphs' = <<>>
    /\ cov_pc' = "live"
    /\ cov_ctor' = "default"
    /\ cov_given' = {}
    /\ UNCHANGED <<cov_added, cov_out, cdb_vars, enc_vars, ext_vars>>

\* faulty variant: the vector is sorted but repetitions are kept
from_glyphs_keeps_repetitions(v) ==
    /\ cov_pc = "new"
    /\ glyphs' = sort_unstable(v)
    /\ cov_pc' = "live"
    /\ cov_given' = Range(v)
    /\ UNCHANGED <<cov_added, cov_out, cdb_vars, enc_vars, ext_vars>>

\* CoverageTableBuilder::from_glyphs
from_glyphs(v) ==
    /\ cov_pc = "new"
    /\ glyphs' = dedup(sort_unstable(v))
    /\ cov_pc' = "live"
    /\ cov_given' = Range(v)
    /\ UNCHANGED <<cov_added, cov_out, cdb_vars, enc_vars, ext_vars>>

\* a caller constructing the builder with from_glyphs
cov_from_glyphs(v) ==
    /\ from_glyphs(v)
    /\ cov_ctor' = "from_glyphs"

\* FromIterator<GlyphId16>: the iterator is collected into a vector, in the
\* order it yields, and handed to from_glyphs
cov_from_iter(iter) ==
    /\ from_glyphs(iter)
    /\ cov_ctor' = "from_iter"

\* the record of an add call, appended to the last one kept
add_record(glyph, found) ==
    LET rec == [glyph |-> glyph, ret |-> found.ix % U16_MODULUS, inserted |-> ~found.ok]
    IN  IF cov_added = <<>> THEN <<rec>> ELSE <<cov_added[Len(cov_added)], rec>>

\* faulty variant: a glyph that is not present is pushed at the end
add_pushes_at_end(glyph) ==
    /\ cov_pc = "live"
    /\ LET found == binary_search(glyphs, glyph)
       IN  /\ glyphs' = IF found.ok THEN glyphs ELSE Append(glyphs, glyph)
           /\ cov_added' = add_record(glyph, found)
    /\ cov_given' = cov_given \cup {glyph}
    /\ UNCHANGED <<cov_pc, cov_out, cov_ctor, cdb_vars, enc_vars, ext_vars>>

\* faulty variant: the index returned for an inserted glyph is the length
\* of the vector before the insertion
add_returns_len(glyph) ==
    /\ cov_pc = "live"
    /\ LET found == binary_search(glyphs, glyph)
       IN  /\ glyphs' = IF found.ok THEN glyphs ELSE vec_insert(glyphs, found.ix, glyph)
           /\ cov_added' = add_record(glyph, IF found.ok THEN found
                                             ELSE [ok |-> FALSE, ix |-> Len(glyphs)])
    /\ cov_given' = cov_given \cup {glyph}
    /\ UNCHANGED <<cov_pc, cov_out, cov_ctor, cdb_vars, enc_vars, ext_vars>>

\* CoverageTableBuilder::add; the glyph and the index returned are kept in cov_added
add(glyph) ==
    /\ cov_pc = "live"
    /\ LET found == binary_search(glyphs, glyph)
       IN  /\ glyphs' = IF found.ok THEN glyphs ELSE vec_insert(glyphs, found.ix, glyph)
           /\ cov_added' = add_record(glyph, found)
    /\ cov_given' = cov_given \cup {glyph}
    /\ UNCHANGED <<cov_pc, cov_out, cov_ctor, cdb_vars, enc_vars, ext_vars>>

\* RangeRecord::iter_for_glyphs run to exhaustion: the maximal runs of
\* consecutive glyph ids, each with the coverage index of its first glyph
RECURSIVE ranges_from(_, _, _, _)
ranges_from(rest, cur, len, out) ==
    IF rest = <<>>
    THEN IF cur = <<>> THEN out
         ELSE Append(out, [start_glyph_id |-> cur[1], end_glyph_id |-> cur[2],
                           start_coverage_index |-> len])
    ELSE IF are_sequential(cur[2], Head(rest))
    THEN ranges_from(Tail(rest), <<cur[1], Head(rest)>>, len, out)
    ELSE ranges_from(Tail(rest), <<Head(rest), Head(rest)>>,
                     len + 1 + (cur[2] - cur[1]),
                     Append(out, [start_glyph_id |-> cur[1], end_glyph_id |-> cur[2],
                                  start_coverage_index |-> len]))

iter_for_glyphs(v) ==
    IF v = <<>> THEN <<>> ELSE ranges_from(Tail(v), <<v[1], v[1]>>, 0, <<>>)

\* faulty variant: format 2 is also chosen on a tie
should_choose_coverage_format_2_on_tie(v) ==
    LET format2_len == 4 + Len(iter_for_glyphs(v)) * 6
        format1_len == 4 + Len(v) * 2
    IN  format2_len <= format1_len

\* should_choose_coverage_format_2
should_choose_coverage_format_2(v) ==
    LET format2_len == 4 + Len(iter_for_glyphs(v)) * 6
        format1_len == 4 + Len(v) * 2
    IN  format2_len < format1_len

\* CoverageTableBuilder::build; consumes the builder
cov_build ==
    /\ cov_pc = "live"
    /\ cov_out' = IF should_choose_coverage_format_2(glyphs)
                  THEN [format |-> 2, range_records |-> iter_for_glyphs(glyphs)]
                  ELSE [format |-> 1, glyph_array |-> glyphs]
    /\ cov_pc' = "built"
    /\ UNCHANGED <<glyphs, cov_added, cov_ctor, cov_given, cdb_vars, enc_vars, ext_vars>>

(***************************************************************************)
(* Deferred device values and the variation store.                         *)
(* A DeviceOrDeltas is [kind |-> "None"], [kind |-> "Device", device |-> d] *)
(* or [kind |-> "Deltas", deltas |-> x], x naming a list of                *)
(* (VariationRegion, i16) pairs. var_store is the VariationStoreBuilder,   *)
(* kept as the sequence of its registrations [deltas, temp_id].            *)
(***************************************************************************)
Devices == 1..MaxDevice
DeltaLists == 1..MaxDeltas
DeferredValues ==
    {[kind |-> "None"]}
        \cup {[kind |-> "Device", device |-> d] : d \in Devices}
        \cup {[kind |-> "Deltas", deltas |-> x] : x \in DeltaLists}

\* Option<DeviceOrVariationIndex>
None == [some |-> FALSE]
Some(x) == [some |-> TRUE, value |-> x]

\* VariationStoreBuilder::add_deltas: the list is registered and a temporary
\* id is handed out for it
add_deltas(store, deltas) ==
    [store |-> Append(store, [deltas |-> deltas, temp_id |-> Len(store)]),
     temp_id |-> Len(store)]

\* PendingVariationIndex::new(temp_id).into()
PendingVariationIndex(temp_id) ==
    [variant |-> "PendingVariationIndex", delta_set_id |-> temp_id]

\* faulty variant: a literal device is registered too, and the handle wrapped
\* is the one after the handle handed out
device_or_deltas_build_off_by_one(v, store) ==
    IF v.kind = "None" THEN [out |-> None, store |-> store]
    ELSE LET r == add_deltas(store, IF v.kind = "Deltas" THEN v.deltas ELSE v.device)
         IN  [out |-> IF v.kind = "Device"
                      THEN Some([variant |-> "Device", device |-> v.device])
                      ELSE Some(PendingVariationIndex(r.temp_id + 1)),
              store |-> r.store]

\* DeviceOrDeltas::build(self, var_store): the value built and the store after
device_or_deltas_build(v, store) ==
    CASE v.kind = "Device" ->
            [out |-> Some([variant |-> "Device", device |-> v.device]), store |-> store]
      [] v.kind = "Deltas" ->
            LET r == add_deltas(store, v.deltas)
            IN  [out |-> Some(PendingVariationIndex(r.temp_id)), store |-> r.store]
      [] v.kind = "None" -> [out |-> None, store |-> store]

\* another user of the shared store registers a delta list
store_register(deltas) ==
    /\ Len(var_store) < MaxStore
    /\ var_store' = add_deltas(var_store, deltas).store
    /\ UNCHANGED <<dod_in, dod_out, lk_vars, builders_vars, clo_vars, ctx_vars>>

\* a caller finalizes the deferred value v against the store
dod_build(v) ==
    /\ Len(var_store) < MaxStore
    /\ LET r == device_or_deltas_build(v, var_store)
       IN  /\ dod_out' = r.out
           /\ var_store' = r.store
    /\ dod_in' = v
    /\ UNCHANGED <<lk_vars, builders_vars, clo_vars, ctx_vars>>

(***************************************************************************)
(* LookupBuilder<T>.                                                       *)
(* A subtable builder is the sequence of the deferred values of its rules; *)
(* finalizing it yields one physical subtable per rule, so a builder may   *)
(* yield none, one or several. T::default() is the builder without rules.  *)
(***************************************************************************)
LookupFlags == {"empty", "RIGHT_TO_LEFT"}
FilterSetIds == {"None", "Some(0)"}
\* the rules given to subtable builders: without a device, or with the
\* first delta list
LookupRules == {v \in DeferredValues : v.kind = "None" \/ v = [kind |-> "Deltas", deltas |-> 1]}
SubtableBuilders == SeqsUpTo(LookupRules, MaxRules)
SubtableVecs == SeqsUpTo(SubtableBuilders, MaxSubtables)
NoLookup == [built |-> FALSE]

\* <T as Default>::default()
default_subtable == <<>>

\* LookupBuilder::new
lookup_new(f, m) ==
    /\ lk_pc = "new"
    /\ flags' = f
    /\ mark_set' = m
    /\ subtables' = <<default_subtable>>
    /\ lk_pc' = "live"
    /\ UNCHANGED <<lk_type, lookup, dev_vars, builders_vars, clo_vars, ctx_vars>>

\* LookupBuilder::new_with_lookups
new_with_lookups(f, m, s) ==
    /\ lk_pc = "new"
    /\ flags' = f
    /\ mark_set' = m
    /\ subtables' = s
    /\ lk_pc' = "live"
    /\ UNCHANGED <<lk_type, lookup, dev_vars, builders_vars, clo_vars, ctx_vars>>

\* #[derive(Default)]: the default of every field
lookup_default ==
    /\ lk_pc = "new"
    /\ flags' = "empty"
    /\ mark_set' = "None"
    /\ subtables' = <<>>
    /\ lk_pc' = "live"
    /\ UNCHANGED <<lk_type, lookup, dev_vars, builders_vars, clo_vars, ctx_vars>>

\* LookupBuilder::last_mut, and the caller adding a rule to the subtable it
\* is handed; with no subtable the call returns None and nothing changes
last_mut(rule) ==
    /\ lk_pc = "live"
    /\ IF subtables = <<>>
       THEN UNCHANGED subtables
       ELSE /\ Len(subtables[Len(subtables)]) < MaxRules
            /\ subtables' = [subtables EXCEPT ![Len(subtables)] = Append(@, rule)]
    /\ UNCHANGED <<lk_pc, lk_type, flags, mark_set, lookup, dev_vars, builders_vars, clo_vars, ctx_vars>>

\* LookupBuilder::force_subtable_break
force_subtable_break ==
    /\ lk_pc = "live"
    /\ Len(subtables) < MaxSubtables
    /\ subtables' = Append(subtables, default_subtable)
    /\ UNCHANGED <<lk_pc, lk_type, flags, mark_set, lookup, dev_vars, builders_vars, clo_vars, ctx_vars>>

\* Into::into of a subtable builder: the same rules, as a builder of type U
into(b) == b

\* LookupBuilder<U>::convert: a LookupBuilder<T> of the converted subtables
convert ==
    /\ lk_pc = "live"
    /\ lk_type = "U"
    /\ lk_type' = "T"
    /\ subtables' = [i \in DOMAIN subtables |-> into(subtables[i])]
    /\ UNCHANGED <<lk_pc, flags, mark_set, lookup, dev_vars, builders_vars, clo_vars, ctx_vars>>

\* <T as Builder>::build of a subtable builder: its rules are finalized in
\* order against the store, one physical subtable each
RECURSIVE subtable_build(_, _)
subtable_build(b, store) ==
    IF b = <<>> THEN [out |-> <<>>, store |-> store]
    ELSE LET r == device_or_deltas_build(Head(b), store)
             rest == subtable_build(Tail(b), r.store)
         IN  [out |-> <<[value |-> r.out]>> \o rest.out, store |-> rest.store]

\* faulty variant: the subtable builders are finalized from the last to the
\* first, the outputs being put in stored order afterwards
RECURSIVE flat_map_build_last_first(_, _)
flat_map_build_last_first(s, store) ==
    IF s = <<>> THEN [out |-> <<>>, store |-> store]
    ELSE LET rest == flat_map_build_last_first(Tail(s), store)
             r == subtable_build(Head(s), rest.store)
         IN  [out |-> r.out \o rest.out, store |-> r.store]

\* self.subtables.into_iter().flat_map(|b| b.build(var_store).into_iter())
\* .collect(): the builders are finalized one after another in stored order
RECURSIVE flat_map_build(_, _)
flat_map_build(s, store) ==
    IF s = <<>> THEN [out |-> <<>>, store |-> store]
    ELSE LET r == subtable_build(Head(s), store)
             rest == flat_map_build(Tail(s), r.store)
         IN  [out |-> r.out \o rest.out, store |-> rest.store]

\* Lookup::new(flags, subtables) with mark_filtering_set set afterwards
Lookup(f, s, m) ==
    [built |-> TRUE, lookup_flag |-> f, subtables |-> s, mark_filtering_set |-> m]

\* <LookupBuilder<T> as Builder>::build; consumes the builder
lookup_build ==
    /\ lk_pc = "live"
    /\ LET r == flat_map_build(subtables, var_store)
       IN  /\ lookup' = Lookup(flags, r.out, mark_set)
           /\ var_store' = r.store
    /\ lk_pc' = "built"
    /\ UNCHANGED <<lk_type, flags, mark_set, subtables, dod_in, dod_out, builders_vars, clo_vars, ctx_vars>>

(***************************************************************************)
(* Layout closure: collecting the feature indices under a ScriptList.      *)
(* c is the CollectFeaturesContext, c.feature_indices the set it collects  *)
(* into. The font is read as the traversal meets it: each step is handed   *)
(* the next item of the loop it is in, which is a tag of the filter that   *)
(* the font does not have (or an absent default LangSys), a record whose   *)
(* offset the accessor reports as malformed, or a table at an offset. Tags *)
(* are positions: the items of a loop have pairwise different tags.        *)
(* A LangSys item may stand for n successive records that all resolve to   *)
(* the same offset, if no LangSys was visited before.                      *)
(* A Script record resolves to a table not met before or                   *)
(* to the table of the Script record before it, whose items are then met   *)
(* again.                                                                  *)
(***************************************************************************)
FeatureTags == {"liga", "kern"}
\* the feature lists of the fonts: tags by position, positions from 0
FeatureLists ==
    {<<"kern", "kern", "kern", "liga", "kern", "kern", "kern", "liga">>}
\* the features argument: None, or the set of tags asked for
FeatureFilters == {None, Some({"liga"})}
ReadErrors == {"OutOfBounds", "InvalidFormat"}
LangSysOffsets == 1..MaxOffset
\* the contents of the LangSys tables of the fonts
LongList == [i \in 1..MAX_FEATURE_INDICES |-> 7]
RequiredIndices == {NO_REQUIRED_FEATURE, 3}
FeatureIndexLists == {<<>>, <<3, 5, 7>>, LongList}
NoLangSys == [offset |-> 0, required_feature_index |-> NO_REQUIRED_FEATURE,
              feature_indices |-> <<>>]
NoItem == [level |-> "none"]
NoContext == [script_count |-> 0, langsys_count |-> 0, feature_index_count |-> 0,
              visited_script |-> {}, visited_langsys |-> {}, feature_indices |-> {},
              feature_indices_filter |-> None]

\* CollectFeaturesContext::compute_feature_filter
compute_feature_filter(this, fs, fl) ==
    IF ~fs.some THEN this
    ELSE [this EXCEPT !.feature_indices_filter =
             Some({idx \in 0..(Len(fl) - 1) : fl[idx + 1] \in fs.value})]

\* CollectFeaturesContext::new
new(fs, fl) ==
    compute_feature_filter(
        [script_count |-> 0, langsys_count |-> 0, feature_index_count |-> 0,
         visited_script |-> {}, visited_langsys |-> {}, feature_indices |-> {},
         feature_indices_filter |-> None], fs, fl)

\* CollectFeaturesContext::script_visited: the context after, and the value
\* returned; the traversal as written does not call it
script_visited(ctx, delta) ==
    IF ctx.script_count > MAX_SCRIPTS THEN [c |-> ctx, ret |-> TRUE]
    ELSE LET counted == [ctx EXCEPT !.script_count = (@ + 1) % U16_MODULUS]
         IN  IF delta \in counted.visited_script THEN [c |-> counted, ret |-> TRUE]
             ELSE [c |-> [counted EXCEPT !.visited_script = @ \cup {delta}],
                   ret |-> FALSE]

\* faulty variant: an offset visited is not remembered
langsys_visited_forgets(ctx, delta) ==
    IF ctx.langsys_count > MAX_LANGSYS THEN [c |-> ctx, ret |-> TRUE]
    ELSE LET counted == [ctx EXCEPT !.langsys_count = (@ + 1) % U16_MODULUS]
         IN  [c |-> counted, ret |-> delta \in ctx.visited_langsys]

\* faulty variant: the ceiling is not looked at
langsys_visited_without_ceiling(ctx, delta) ==
    LET counted == [ctx EXCEPT !.langsys_count = (@ + 1) % U16_MODULUS]
    IN  IF delta \in counted.visited_langsys THEN [c |-> counted, ret |-> TRUE]
        ELSE [c |-> [counted EXCEPT !.visited_langsys = @ \cup {delta}],
              ret |-> FALSE]

\* CollectFeaturesContext::langsys_visited: the context after, and the value
\* returned; delta is the offset of the LangSys from the table head
langsys_visited(ctx, delta) ==
    IF ctx.langsys_count > MAX_LANGSYS THEN [c |-> ctx, ret |-> TRUE]
    ELSE LET counted == [ctx EXCEPT !.langsys_count = (@ + 1) % U16_MODULUS]
         IN  IF delta \in counted.visited_langsys THEN [c |-> counted, ret |-> TRUE]
             ELSE [c |-> [counted EXCEPT !.visited_langsys = @ \cup {delta}],
                   ret |-> FALSE]

\* faulty variant: the sum wraps around (wrapping_add) and is compared
feature_indices_limit_exceeded_wrapping(ctx, count) ==
    LET new_count == (ctx.feature_index_count + count) % U16_MODULUS
    IN  [c |-> [ctx EXCEPT !.feature_index_count = new_count],
         ret |-> new_count > MAX_FEATURE_INDICES]

\* CollectFeaturesContext::feature_indices_limit_exceeded
feature_indices_limit_exceeded(ctx, count) ==
    LET sum == ctx.feature_index_count + count
        overflow == sum >= U16_MODULUS
    IN  IF overflow
        THEN [c |-> [ctx EXCEPT !.feature_index_count = MAX_FEATURE_INDICES], ret |-> TRUE]
        ELSE [c |-> [ctx EXCEPT !.feature_index_count = sum],
              ret |-> sum > MAX_FEATURE_INDICES]

\* faulty variant: the required feature index is charged but not inserted
lang_sys_collect_features_drops_required(ctx, ls) ==
    LET v == langsys_visited(ctx, ls.offset)
    IN  IF v.ret THEN v.c
        ELSE IF ~v.c.feature_indices_filter.some
        THEN LET req == IF ls.required_feature_index # NO_REQUIRED_FEATURE
                        THEN feature_indices_limit_exceeded(v.c, 1).c
                        ELSE v.c
                 lst == feature_indices_limit_exceeded(req, Len(ls.feature_indices))
             IN  IF ~lst.ret
                 THEN [lst.c EXCEPT !.feature_indices = @ \cup Range(ls.feature_indices)]
                 ELSE lst.c
        ELSE v.c

\* LangSys::collect_features: the context after. `count` and `iter` are the
\* length of the LangSys' feature index list and the list itself
lang_sys_collect_features(ctx, ls) ==
    LET v == langsys_visited(ctx, ls.offset)
    IN  IF v.ret THEN v.c
        ELSE IF ~v.c.feature_indices_filter.some
        THEN LET charged == feature_indices_limit_exceeded(v.c, 1)
                 req == IF ls.required_feature_index # NO_REQUIRED_FEATURE
                        THEN IF ~charged.ret
                             THEN [charged.c EXCEPT !.feature_indices =
                                      @ \cup {ls.required_feature_index}]
                             ELSE charged.c
                        ELSE v.c
                 lst == feature_indices_limit_exceeded(req, Len(ls.feature_indices))
             IN  IF ~lst.ret
                 THEN [lst.c EXCEPT !.feature_indices = @ \cup Range(ls.feature_indices)]
                 ELSE lst.c
        ELSE v.c

\* lang_sys.collect_features(c) for n successive records of the same LangSys:
\* the calls of the first half, and on the context they leave (evaluated
\* before going on) those of the second half
RECURSIVE collect_features_times(_, _, _)
collect_features_times(ctx, ls, n) ==
    IF n = 0 THEN ctx
    ELSE IF n = 1 THEN lang_sys_collect_features(ctx, ls)
    ELSE LET half == collect_features_times(ctx, ls, n \div 2)
         IN  IF half.langsys_count >= 0
             THEN collect_features_times(half, ls, n - n \div 2)
             ELSE half

\* the items a loop over Script records or filter tags may be handed:
\* index_for_tag finding nothing, record.script(font_data) failing, a Script
\* table not met before, the Script table of the record before
ScriptItems ==
    {[level |-> "script", kind |-> "absent"]}
        \cup {[level |-> "script", kind |-> "malformed", err |-> e] : e \in ReadErrors}
        \cup {[level |-> "script", kind |-> "table", alias |-> a] : a \in BOOLEAN}

\* the items a loop over the LangSys of a Script may be handed
LangSysItems ==
    {[level |-> "langsys", kind |-> "absent"]}
        \cup {[level |-> "langsys", kind |-> "malformed", err |-> e] : e \in ReadErrors}
        \cup {[level |-> "langsys", kind |-> "table", offset |-> l, n |-> n] :
                 l \in LangSysOffsets, n \in {1, MAX_LANGSYS + 1}}

Ok == [kind |-> "Ok"]
Err(e) == [kind |-> "Err", err |-> e]

\* CollectFeaturesContext::new, called for a query with the features argument fs
\* on a font whose FeatureList is fl
context_new(fs, fl) ==
    /\ clo_pc = "idle"
    /\ c' = new(fs, fl)
    /\ features' = fs
    /\ feature_list' = fl
    /\ clo_pc' = "context"
    /\ UNCHANGED <<scripts, languages, steps, lang_ix, cur_script, cur_items, replay,
                   item, lang_sys, read_offsets, result, builders_vars, dev_vars, lk_vars, ctx_vars>>

\* ScriptList::collect_features is entered; sg and lg tell whether the
\* scripts and the languages arguments are Some
script_list_collect_features(sg, lg) ==
    /\ clo_pc = "context"
    /\ scripts' = sg
    /\ languages' = lg
    /\ clo_pc' = "scripts"
    /\ UNCHANGED <<c, features, feature_list, steps, lang_ix, cur_script, cur_items,
                   replay, item, lang_sys, read_offsets, result,
                   builders_vars, dev_vars, lk_vars, ctx_vars>>

\* faulty variant: a tag of the scripts argument that the font does not have
\* ends the query with an error
script_record_absent_is_error(it) ==
    /\ clo_pc = "scripts"
    /\ steps < MaxItems
    /\ it.kind = "absent" => scripts = "Some"
    /\ it.kind = "table" /\ it.alias => cur_script >= 1
    /\ steps' = steps + 1
    /\ item' = it
    /\ CASE it.kind = "absent" ->
              /\ result' = Err("OutOfBounds")
              /\ clo_pc' = "done"
              /\ UNCHANGED <<cur_script, cur_items, replay, lang_ix>>
         [] it.kind = "malformed" ->
              /\ result' = Err(it.err)
              /\ clo_pc' = "done"
              /\ UNCHANGED <<cur_script, cur_items, replay, lang_ix>>
         [] it.kind = "table" ->
              /\ clo_pc' = "langs"
              /\ lang_ix' = 0
              /\ replay' = it.alias
              /\ cur_script' = IF it.alias THEN cur_script ELSE cur_script + 1
              /\ cur_items' = IF it.alias THEN cur_items ELSE <<>>
              /\ UNCHANGED result
    /\ UNCHANGED <<c, features, feature_list, scripts, languages, lang_sys, read_offsets,
                   builders_vars, dev_vars, lk_vars, ctx_vars>>

\* one iteration of the loop of ScriptList::collect_features
script_record(it) ==
    /\ clo_pc = "scripts"
    /\ steps < MaxItems
    /\ it.kind = "absent" => scripts = "Some"
    /\ it.kind = "table" /\ it.alias => cur_script >= 1
    /\ steps' = steps + 1
    /\ item' = it
    /\ CASE it.kind = "absent" ->
              UNCHANGED <<clo_pc, result, cur_script, cur_items, replay, lang_ix>>
         [] it.kind = "malformed" ->
              /\ result' = Err(it.err)
              /\ clo_pc' = "done"
              /\ UNCHANGED <<cur_script, cur_items, replay, lang_ix>>
         [] it.kind = "table" ->
              /\ clo_pc' = "langs"
              /\ lang_ix' = 0
              /\ replay' = it.alias
              /\ cur_script' = IF it.alias THEN cur_script ELSE cur_script + 1
              /\ cur_items' = IF it.alias THEN cur_items ELSE <<>>
              /\ UNCHANGED result
    /\ UNCHANGED <<c, features, feature_list, scripts, languages, lang_sys, read_offsets,
                   builders_vars, dev_vars, lk_vars, ctx_vars>>

\* the loop of ScriptList::collect_features ends: Ok(out)
script_records_end ==
    /\ clo_pc = "scripts"
    /\ result' = Ok
    /\ clo_pc' = "done"
    /\ UNCHANGED <<c, features, feature_list, scripts, languages, steps, lang_ix,
                   cur_script, cur_items, replay, item, lang_sys, read_offsets,
                   builders_vars, dev_vars, lk_vars, ctx_vars>>

\* the item it of Script::collect_features is processed; ls is the LangSys
\* table at its offset, read only if langsys_visited returns false
lang_sys_item(it, ls) ==
    /\ lang_ix' = lang_ix + 1
    /\ CASE it.kind = "absent" ->
              /\ item' = it
              /\ UNCHANGED <<clo_pc, result, c, lang_sys, read_offsets>>
         [] it.kind = "malformed" ->
              /\ item' = it
              /\ result' = Err(it.err)
              /\ clo_pc' = "done"
              /\ UNCHANGED <<c, lang_sys, read_offsets>>
         [] it.kind = "table" ->
              LET read == ~langsys_visited(c, it.offset).ret
              IN  /\ ls.offset = it.offset
                  /\ ~read => ls = [NoLangSys EXCEPT !.offset = it.offset]
                  /\ c' = collect_features_times(c, ls, it.n)
                  /\ item' = [level |-> "langsys", kind |-> "table", offset |-> it.offset,
                              n |-> it.n, read |-> read]
                  /\ lang_sys' = IF read THEN ls ELSE NoLangSys
                  /\ read_offsets' = IF read THEN read_offsets \cup {it.offset}
                                     ELSE read_offsets
                  /\ UNCHANGED <<clo_pc, result>>
    /\ UNCHANGED <<features, feature_list, scripts, languages, cur_script, replay,
                   builders_vars, dev_vars, lk_vars, ctx_vars>>

\* the LangSys tables an item may resolve to
LangSysTables ==
    [offset : {0} \cup LangSysOffsets, required_feature_index : RequiredIndices,
     feature_indices : FeatureIndexLists]

\* one iteration of a loop of Script::collect_features, in a Script met for the
\* first time: without a languages argument the first item is the default
\* LangSys (absent, malformed or a table), the others are records
lang_sys_record(it, ls) ==
    /\ clo_pc = "langs"
    /\ ~replay
    /\ steps < MaxItems
    /\ steps' = steps + 1
    /\ it.kind = "absent" => languages = "Some" \/ lang_ix = 0
    /\ languages = "None" /\ lang_ix = 0 /\ it.kind = "table" => it.n = 1
    /\ it.kind = "table" /\ it.n > 1 => c.langsys_count = 0
    /\ cur_items' = Append(cur_items, it)
    /\ lang_sys_item(it, ls)

\* the same iteration in the Script table of the record before: its items
\* are met again
lang_sys_record_again(ls) ==
    /\ clo_pc = "langs"
    /\ replay
    /\ lang_ix < Len(cur_items)
    /\ UNCHANGED <<steps, cur_items>>
    /\ lang_sys_item(cur_items[lang_ix + 1], ls)

\* faulty variant: at the end of a Script table met again, its records are
\* gone through once more
lang_sys_records_end_restarts ==
    /\ clo_pc = "langs"
    /\ replay => lang_ix = Len(cur_items)
    /\ clo_pc' = IF replay THEN "langs" ELSE "scripts"
    /\ lang_ix' = IF replay THEN 0 ELSE lang_ix
    /\ UNCHANGED <<c, features, feature_list, scripts, languages, steps,
                   cur_script, cur_items, replay, item, lang_sys, read_offsets, result,
                   builders_vars, dev_vars, lk_vars, ctx_vars>>

\* the loops of Script::collect_features end: Ok(())
lang_sys_records_end ==
    /\ clo_pc = "langs"
    /\ replay => lang_ix = Len(cur_items)
    /\ clo_pc' = "scripts"
    /\ UNCHANGED <<c, features, feature_list, scripts, languages, steps, lang_ix,
                   cur_script, cur_items, replay, item, lang_sys, read_offsets, result,
                   builders_vars, dev_vars, lk_vars, ctx_vars>>

(***************************************************************************)
(* Calls on a CollectFeaturesContext. The methods of the context are       *)
(* pub(crate): besides the traversal, any code of the crate may call them  *)
(* on a context it made, in any order and with any argument. The first     *)
(* call on a context, if of script_visited or of langsys_visited, may      *)
(* stand for n successive calls with the same table.                       *)
(***************************************************************************)
\* the offsets of the Script tables passed to script_visited
ScriptOffsets == 1..MaxOffset
\* the count arguments: nothing, one index, a list as long as the quota, the
\* largest u16
CountArgs == {0, 1, MAX_FEATURE_INDICES, U16_MODULUS - 1}
NoCall == [method |-> "none"]
\* the LangSys tables passed to collect_features: without features, with the
\* list [3, 5, 7], with a required feature and a list as long as the quota
ContextLangSysTables ==
    {ls \in LangSysTables :
        /\ ls.offset # 0
        /\ (ls.required_feature_index = 3) = (ls.feature_indices = LongList)}

\* the ceiling of each counter
Ceiling == [script_count |-> MAX_SCRIPTS, langsys_count |-> MAX_LANGSYS,
            feature_index_count |-> MAX_FEATURE_INDICES]

\* the counters of a context that are over their ceiling
Exceeding(ctx) == {k \in DOMAIN Ceiling : ctx[k] > Ceiling[k]}

\* the context after n successive calls of script_visited with the Script at
\* delta: the calls of the first half, and on the context they leave
\* (evaluated before going on) those of the second half
RECURSIVE script_visited_times(_, _, _)
script_visited_times(ctx, delta, n) ==
    IF n = 0 THEN ctx
    ELSE IF n = 1 THEN script_visited(ctx, delta).c
    ELSE LET half == script_visited_times(ctx, delta, n \div 2)
         IN  IF half.script_count >= 0
             THEN script_visited_times(half, delta, n - n \div 2)
             ELSE half

\* the same for langsys_visited
RECURSIVE langsys_visited_times(_, _, _)
langsys_visited_times(ctx, delta, n) ==
    IF n = 0 THEN ctx
    ELSE IF n = 1 THEN langsys_visited(ctx, delta).c
    ELSE LET half == langsys_visited_times(ctx, delta, n \div 2)
         IN  IF half.langsys_count >= 0
             THEN langsys_visited_times(half, delta, n - n \div 2)
             ELSE half

\* c.script_visited(s), n times, for the Script at delta; ret is what the
\* last call returned
context_script_visited(delta, n) ==
    /\ clo_pc = "context"
    /\ ctx_calls < MaxContextCalls
    /\ n > 1 => ctx_calls = 0
    /\ LET last == script_visited(script_visited_times(c, delta, n - 1), delta)
       IN  /\ c' = last.c
           /\ ctx_call' = [method |-> "script_visited", arg |-> delta, n |-> n,
                           ret |-> last.ret]
           /\ ever_exceeded' = ever_exceeded \cup Exceeding(last.c)
    /\ ctx_calls' = ctx_calls + 1
    /\ UNCHANGED <<clo_pc, features, feature_list, scripts, languages, steps, lang_ix,
                   cur_script, cur_items, replay, item, lang_sys, read_offsets, result,
                   builders_vars, dev_vars, lk_vars>>

\* c.langsys_visited(langsys), n times, for the LangSys at delta
context_langsys_visited(delta, n) ==
    /\ clo_pc = "context"
    /\ ctx_calls < MaxContextCalls
    /\ n > 1 => ctx_calls = 0
    /\ LET last == langsys_visited(langsys_visited_times(c, delta, n - 1), delta)
       IN  /\ c' = last.c
           /\ ctx_call' = [method |-> "langsys_visited", arg |-> delta, n |-> n,
                           ret |-> last.ret]
           /\ ever_exceeded' = ever_exceeded \cup Exceeding(last.c)
    /\ ctx_calls' = ctx_calls + 1
    /\ UNCHANGED <<clo_pc, features, feature_list, scripts, languages, steps, lang_ix,
                   cur_script, cur_items, replay, item, lang_sys, read_offsets, result,
                   builders_vars, dev_vars, lk_vars>>

\* c.feature_indices_limit_exceeded(count); the counter has gone over its
\* ceiling if the sum is over it, whether or not it fits in 16 bits
context_feature_indices_limit_exceeded(count) ==
    /\ clo_pc = "context"
    /\ ctx_calls < MaxContextCalls
    /\ LET r == feature_indices_limit_exceeded(c, count)
       IN  /\ c' = r.c
           /\ ctx_call' = [method |-> "feature_indices_limit_exceeded", arg |-> count,
                           n |-> 1, ret |-> r.ret]
           /\ ever_exceeded' =
                 ever_exceeded \cup Exceeding(r.c)
                    \cup {k \in {"feature_index_count"} :
                             c.feature_index_count + count > MAX_FEATURE_INDICES}
    /\ ctx_calls' = ctx_calls + 1
    /\ UNCHANGED <<clo_pc, features, feature_list, scripts, languages, steps, lang_ix,
                   cur_script, cur_items, replay, item, lang_sys, read_offsets, result,
                   builders_vars, dev_vars, lk_vars>>

\* lang_sys.collect_features(c) for the LangSys table ls; it returns ()
context_collect_features(ls) ==
    /\ clo_pc = "context"
    /\ ctx_calls < MaxContextCalls
    /\ c' = lang_sys_collect_features(c, ls)
    /\ lang_sys' = ls
    /\ ctx_call' = [method |-> "collect_features", arg |-> ls.offset, n |-> 1,
                    ret |-> FALSE]
    /\ ever_exceeded' = ever_exceeded \cup Exceeding(c')
    /\ ctx_calls' = ctx_calls + 1
    /\ UNCHANGED <<clo_pc, features, feature_list, scripts, languages, steps, lang_ix,
                   cur_script, cur_items, replay, item, read_offsets, result,
                   builders_vars, dev_vars, lk_vars>>

(***************************************************************************)
(* Specifications.                                                         *)
(***************************************************************************)
\* ClassDefBuilder::new() and ClassDefBuilder::new_using_class_0(); the other
\* builders stay as constructed
InitClassDefBuilder ==
    /\ classes = {}
    /\ all_glyphs = {}
    /\ use_class_0 \in BOOLEAN
    /\ calls = <<>>
    /\ built = FALSE
    /\ mapping = EmptyMap
    /\ class_def = NoTable
    /\ enc_pc = "new"
    /\ enc_input = <<>>
    /\ items = EmptyMap
    /\ enc_out = NoTable
    /\ cov_pc = "new"
    /\ glyphs = <<>>
    /\ cov_added = <<>>
    /\ cov_out = NoTable
    /\ cov_ctor = "none"
    /\ cov_given = {}
    /\ var_store = <<>>
    /\ dod_in = [kind |-> "unset"]
    /\ dod_out = None
    /\ lk_pc = "new"
    /\ lk_type = "U"
    /\ flags = "empty"
    /\ mark_set = "None"
    /\ subtables = <<>>
    /\ lookup = NoLookup
    /\ clo_pc = "idle"
    /\ c = NoContext
    /\ features = None
    /\ feature_list = <<>>
    /\ scripts = "None"
    /\ languages = "None"
    /\ steps = 0
    /\ lang_ix = 0
    /\ cur_script = 0
    /\ cur_items = <<>>
    /\ replay = FALSE
    /\ item = NoItem
    /\ lang_sys = NoLangSys
    /\ read_offsets = {}
    /\ result = [kind |-> "pending"]
    /\ ctx_call = NoCall
    /\ ctx_calls = 0
    /\ ever_exceeded = {}

\* no ClassDefBuilderImpl collected yet
InitEncoder ==
    /\ classes = {}
    /\ all_glyphs = {}
    /\ use_class_0 = FALSE
    /\ calls = <<>>
    /\ built = FALSE
    /\ mapping = EmptyMap
    /\ class_def = NoTable
    /\ enc_pc = "new"
    /\ enc_input = <<>>
    /\ items = EmptyMap
    /\ enc_out = NoTable
    /\ cov_pc = "new"
    /\ glyphs = <<>>
    /\ cov_added = <<>>
    /\ cov_out = NoTable
    /\ cov_ctor = "none"
    /\ cov_given = {}
    /\ var_store = <<>>
    /\ dod_in = [kind |-> "unset"]
    /\ dod_out = None
    /\ lk_pc = "new"
    /\ lk_type = "U"
    /\ flags = "empty"
    /\ mark_set = "None"
    /\ subtables = <<>>
    /\ lookup = NoLookup
    /\ clo_pc = "idle"
    /\ c = NoContext
    /\ features = None
    /\ feature_list = <<>>
    /\ scripts = "None"
    /\ languages = "None"
    /\ steps = 0
    /\ lang_ix = 0
    /\ cur_script = 0
    /\ cur_items = <<>>
    /\ replay = FALSE
    /\ item = NoItem
    /\ lang_sys = NoLangSys
    /\ read_offsets = {}
    /\ result = [kind |-> "pending"]
    /\ ctx_call = NoCall
    /\ ctx_calls = 0
    /\ ever_exceeded = {}

\* no CoverageTableBuilder constructed yet
InitCoverage ==
    /\ classes = {}
    /\ all_glyphs = {}
    /\ use_class_0 = FALSE
    /\ calls = <<>>
    /\ built = FALSE
    /\ mapping = EmptyMap
    /\ class_def = NoTable
    /\ enc_pc = "new"
    /\ enc_input = <<>>
    /\ items = EmptyMap
    /\ enc_out = NoTable
    /\ cov_pc = "new"
    /\ glyphs = <<>>
    /\ cov_added = <<>>
    /\ cov_out = NoTable
    /\ cov_ctor = "none"
    /\ cov_given = {}
    /\ var_store = <<>>
    /\ dod_in = [kind |-> "unset"]
    /\ dod_out = None
    /\ lk_pc = "new"
    /\ lk_type = "U"
    /\ flags = "empty"
    /\ mark_set = "None"
    /\ subtables = <<>>
    /\ lookup = NoLookup
    /\ clo_pc = "idle"
    /\ c = NoContext
    /\ features = None
    /\ feature_list = <<>>
    /\ scripts = "None"
    /\ languages = "None"
    /\ steps = 0
    /\ lang_ix = 0
    /\ cur_script = 0
    /\ cur_items = <<>>
    /\ replay = FALSE
    /\ item = NoItem
    /\ lang_sys = NoLangSys
    /\ read_offsets = {}
    /\ result = [kind |-> "pending"]
    /\ ctx_call = NoCall
    /\ ctx_calls = 0
    /\ ever_exceeded = {}

\* an empty variation store, no deferred value finalized yet
InitDeferred ==
    /\ classes = {}
    /\ all_glyphs = {}
    /\ use_class_0 = FALSE
    /\ calls = <<>>
    /\ built = FALSE
    /\ mapping = EmptyMap
    /\ class_def = NoTable
    /\ enc_pc = "new"
    /\ enc_input = <<>>
    /\ items = EmptyMap
    /\ enc_out = NoTable
    /\ cov_pc = "new"
    /\ glyphs = <<>>
    /\ cov_added = <<>>
    /\ cov_out = NoTable
    /\ cov_ctor = "none"
    /\ cov_given = {}
    /\ var_store = <<>>
    /\ dod_in = [kind |-> "unset"]
    /\ dod_out = None
    /\ lk_pc = "new"
    /\ lk_type = "U"
    /\ flags = "empty"
    /\ mark_set = "None"
    /\ subtables = <<>>
    /\ lookup = NoLookup
    /\ clo_pc = "idle"
    /\ c = NoContext
    /\ features = None
    /\ feature_list = <<>>
    /\ scripts = "None"
    /\ languages = "None"
    /\ steps = 0
    /\ lang_ix = 0
    /\ cur_script = 0
    /\ cur_items = <<>>
    /\ replay = FALSE
    /\ item = NoItem
    /\ lang_sys = NoLangSys
    /\ read_offsets = {}
    /\ result = [kind |-> "pending"]
    /\ ctx_call = NoCall
    /\ ctx_calls = 0
    /\ ever_exceeded = {}

\* no LookupBuilder constructed yet; the shared variation store is empty or
\* holds a registration of another user
InitLookup ==
    /\ classes = {}
    /\ all_glyphs = {}
    /\ use_class_0 = FALSE
    /\ calls = <<>>
    /\ built = FALSE
    /\ mapping = EmptyMap
    /\ class_def = NoTable
    /\ enc_pc = "new"
    /\ enc_input = <<>>
    /\ items = EmptyMap
    /\ enc_out = NoTable
    /\ cov_pc = "new"
    /\ glyphs = <<>>
    /\ cov_added = <<>>
    /\ cov_out = NoTable
    /\ cov_ctor = "none"
    /\ cov_given = {}
    /\ var_store \in {<<>>, add_deltas(<<>>, 1).store}
    /\ dod_in = [kind |-> "unset"]
    /\ dod_out = None
    /\ lk_pc = "new"
    /\ lk_type = "U"
    /\ flags = "empty"
    /\ mark_set = "None"
    /\ subtables = <<>>
    /\ lookup = NoLookup
    /\ clo_pc = "idle"
    /\ c = NoContext
    /\ features = None
    /\ feature_list = <<>>
    /\ scripts = "None"
    /\ languages = "None"
    /\ steps = 0
    /\ lang_ix = 0
    /\ cur_script = 0
    /\ cur_items = <<>>
    /\ replay = FALSE
    /\ item = NoItem
    /\ lang_sys = NoLangSys
    /\ read_offsets = {}
    /\ result = [kind |-> "pending"]
    /\ ctx_call = NoCall
    /\ ctx_calls = 0
    /\ ever_exceeded = {}

\* no closure query begun yet
InitClosure ==
    /\ classes = {}
    /\ all_glyphs = {}
    /\ use_class_0 = FALSE
    /\ calls = <<>>
    /\ built = FALSE
    /\ mapping = EmptyMap
    /\ class_def = NoTable
    /\ enc_pc = "new"
    /\ enc_input = <<>>
    /\ items = EmptyMap
    /\ enc_out = NoTable
    /\ cov_pc = "new"
    /\ glyphs = <<>>
    /\ cov_added = <<>>
    /\ cov_out = NoTable
    /\ cov_ctor = "none"
    /\ cov_given = {}
    /\ var_store = <<>>
    /\ dod_in = [kind |-> "unset"]
    /\ dod_out = None
    /\ lk_pc = "new"
    /\ lk_type = "U"
    /\ flags = "empty"
    /\ mark_set = "None"
    /\ subtables = <<>>
    /\ lookup = NoLookup
    /\ clo_pc = "idle"
    /\ c = NoContext
    /\ features = None
    /\ feature_list = <<>>
    /\ scripts = "None"
    /\ languages = "None"
    /\ steps = 0
    /\ lang_ix = 0
    /\ cur_script = 0
    /\ cur_items = <<>>
    /\ replay = FALSE
    /\ item = NoItem
    /\ lang_sys = NoLangSys
    /\ read_offsets = {}
    /\ result = [kind |-> "pending"]
    /\ ctx_call = NoCall
    /\ ctx_calls = 0
    /\ ever_exceeded = {}

\* no CollectFeaturesContext made yet
InitContext ==
    /\ classes = {}
    /\ all_glyphs = {}
    /\ use_class_0 = FALSE
    /\ calls = <<>>
    /\ built = FALSE
    /\ mapping = EmptyMap
    /\ class_def = NoTable
    /\ enc_pc = "new"
    /\ enc_input = <<>>
    /\ items = EmptyMap
    /\ enc_out = NoTable
    /\ cov_pc = "new"
    /\ glyphs = <<>>
    /\ cov_added = <<>>
    /\ cov_out = NoTable
    /\ cov_ctor = "none"
    /\ cov_given = {}
    /\ var_store = <<>>
    /\ dod_in = [kind |-> "unset"]
    /\ dod_out = None
    /\ lk_pc = "new"
    /\ lk_type = "U"
    /\ flags = "empty"
    /\ mark_set = "None"
    /\ subtables = <<>>
    /\ lookup = NoLookup
    /\ clo_pc = "idle"
    /\ c = NoContext
    /\ features = None
    /\ feature_list = <<>>
    /\ scripts = "None"
    /\ languages = "None"
    /\ steps = 0
    /\ lang_ix = 0
    /\ cur_script = 0
    /\ cur_items = <<>>
    /\ replay = FALSE
    /\ item = NoItem
    /\ lang_sys = NoLangSys
    /\ read_offsets = {}
    /\ result = [kind |-> "pending"]
    /\ ctx_call = NoCall
    /\ ctx_calls = 0
    /\ ever_exceeded = {}

\* the guard of an operation is stated before its argument is chosen, so that
\* the arguments are enumerated only where the operation is enabled
NextClassDefBuilder ==
    \/ ~built /\ \E cls \in Classes : checked_add(cls)
    \/ build_with_mapping

NextEncoder ==
    \/ enc_pc = "new" /\ \E iter \in EncInputs : enc_from_iter(iter)
    \/ enc_build

NextCoverage ==
    \/ cov_default
    \/ cov_pc = "new" /\ \E v \in CovInputs : cov_from_glyphs(v)
    \/ cov_pc = "new" /\ \E iter \in CovInputs : cov_from_iter(iter)
    \/ cov_pc = "live" /\ \E glyph \in CovGlyphs : add(glyph)
    \/ cov_build

NextDeferred ==
    \/ \E deltas \in DeltaLists : store_register(deltas)
    \/ \E v \in DeferredValues : dod_build(v)

NextLookup ==
    \/ lk_pc = "new" /\ \E f \in LookupFlags, m \in FilterSetIds : lookup_new(f, m)
    \/ lk_pc = "new" /\ \E f \in LookupFlags, m \in FilterSetIds, s \in SubtableVecs :
            new_with_lookups(f, m, s)
    \/ lookup_default
    \/ lk_pc = "live" /\ \E rule \in LookupRules : last_mut(rule)
    \/ force_subtable_break
    \/ convert
    \/ lookup_build

NextClosure ==
    \/ clo_pc = "idle" /\ \E fs \in FeatureFilters, fl \in FeatureLists : context_new(fs, fl)
    \/ clo_pc = "context" /\ \E sg, lg \in {"None", "Some"} : script_list_collect_features(sg, lg)
    \/ clo_pc = "scripts" /\ \E it \in ScriptItems : script_record(it)
    \/ script_records_end
    \/ clo_pc = "langs" /\ ~replay /\ \E it \in LangSysItems, ls \in LangSysTables :
            lang_sys_record(it, ls)
    \/ clo_pc = "langs" /\ replay /\ \E ls \in LangSysTables : lang_sys_record_again(ls)
    \/ lang_sys_records_end

NextContext ==
    \/ clo_pc = "idle" /\ \E fs \in FeatureFilters, fl \in FeatureLists : context_new(fs, fl)
    \/ clo_pc = "context" /\ \E delta \in ScriptOffsets, n \in {1, MAX_SCRIPTS + 1} :
            context_script_visited(delta, n)
    \/ clo_pc = "context" /\ \E delta \in LangSysOffsets, n \in {1, MAX_LANGSYS + 1} :
            context_langsys_visited(delta, n)
    \/ clo_pc = "context" /\ \E count \in CountArgs :
            context_feature_indices_limit_exceeded(count)
    \/ clo_pc = "context" /\ \E ls \in ContextLangSysTables : context_collect_features(ls)

SpecClassDefBuilder ==
    InitClassDefBuilder /\ [][NextClassDefBuilder]_vars

SpecEncoder ==
    InitEncoder /\ [][NextEncoder]_vars

SpecCoverage ==
    InitCoverage /\ [][NextCoverage]_vars

SpecDeferred ==
    InitDeferred /\ [][NextDeferred]_vars

SpecLookup ==
    InitLookup /\ [][NextLookup]_vars

SpecClosure ==
    InitClosure /\ [][NextClosure]_vars

SpecContext ==
    InitContext /\ [][NextContext]_vars

\* the LangSys tables of a font made to go over the feature quota: a table
\* without features, and one with a required feature and a list as long as
\* the quota
LangSysTablesOverQuota ==
    {ls \in LangSysTables :
        \/ ls.required_feature_index = NO_REQUIRED_FEATURE /\ ls.feature_indices = <<>>
        \/ ls.required_feature_index = 3 /\ ls.feature_indices = LongList}

\* the steps of a query on such a font
NextClosureOverQuota ==
    \/ clo_pc = "idle" /\ \E fs \in FeatureFilters, fl \in FeatureLists : context_new(fs, fl)
    \/ clo_pc = "context" /\ \E sg, lg \in {"None", "Some"} : script_list_collect_features(sg, lg)
    \/ clo_pc = "scripts" /\ \E it \in ScriptItems : script_record(it)
    \/ script_records_end
    \/ clo_pc = "langs" /\ ~replay /\ \E it \in LangSysItems, ls \in LangSysTablesOverQuota :
            lang_sys_record(it, ls)
    \/ clo_pc = "langs" /\ replay /\ \E ls \in LangSysTablesOverQuota : lang_sys_record_again(ls)
    \/ lang_sys_records_end

\* the steps that go on without a record being read: the two calls that
\* start a query, and the end of a loop
NextWithoutRecord ==
    \/ \E fs \in FeatureFilters, fl \in FeatureLists : context_new(fs, fl)
    \/ \E sg, lg \in {"None", "Some"} : script_list_collect_features(sg, lg)
    \/ lang_sys_records_end
    \/ script_records_end

\* the next record of a Script table met again is gone through
NextRecordAgain ==
    clo_pc = "langs" /\ replay /\ lang_ix < Len(cur_items) /\ lang_ix' = lang_ix + 1

\* the query runs on one thread from the call to the return, over lists of
\* records that are finite: it does not stop before it returns, and it does
\* not read new records for ever
SpecClosureTerminating ==
    /\ InitClosure
    /\ [][NextClosureOverQuota]_vars
    /\ WF_vars(NextWithoutRecord)
    /\ WF_lang_ix(NextRecordAgain)

(***************************************************************************)
(* Properties of ClassDefBuilder (checked under SpecClassDefBuilder).      *)
(***************************************************************************)
\* the classes checked_add returned true for, and those it returned false for
Accepted == {calls[i].cls : i \in {j \in DOMAIN calls : calls[j].ret}}

Rejected == {calls[i].cls : i \in {j \in DOMAIN calls : ~calls[j].ret}}

\* a step is a checked_add call: one entry is appended to the log
IsAddStep == Len(calls') = Len(calls) + 1

\* C1: after any sequence of checked_add calls, on a builder made by new or
\* new_using_class_0, no glyph is a member of two different committed
\* classes: the sets in classes are pairwise disjoint.
ClassesPairwiseDisjoint ==
    \A a \in classes : \A b \in classes : a # b => a \cap b = {}

\* C1 witness: two non-empty classes are committed and an overlapping class
\* was rejected in between or after
ClassesPairwiseDisjointWitness ==
    /\ \E a \in classes : \E b \in classes : a # b /\ a # {} /\ b # {}
    /\ Rejected # {}

\* C2: checked_add of a class that is not identical to a committed class and
\* contains an already assigned glyph returns false and leaves classes,
\* all_glyphs and use_class_0 as they were.
RejectedAddIsAtomic ==
    [][IsAddStep =>
          LET call == calls'[Len(calls')]
          IN  (call.cls \notin classes /\ call.cls \cap all_glyphs # {})
                 => /\ call.ret = FALSE
                    /\ classes' = classes
                    /\ all_glyphs' = all_glyphs
                    /\ use_class_0' = use_class_0]_vars

\* C2 witness: a class was rejected of which some glyph is still unassigned
\* at the end of the calls
RejectedAddIsAtomicWitness ==
    /\ Len(calls) = MaxCalls
    /\ \E i \in DOMAIN calls :
          /\ ~calls[i].ret
          /\ calls[i].cls \ all_glyphs # {}
          /\ calls[i].cls \cap all_glyphs # {}

\* C3: checked_add of a class identical to a committed one returns true and
\* leaves classes and all_glyphs as they were, and build_with_mapping has
\* one entry, with one id, for the class submitted twice.
DuplicateAddIsIdempotent ==
    [][/\ IsAddStep =>
             LET call == calls'[Len(calls')]
             IN  call.cls \in classes
                    => /\ call.ret = TRUE
                       /\ classes' = classes
                       /\ all_glyphs' = all_glyphs
       /\ built' =>
             /\ Accepted' \subseteq DOMAIN mapping'
             /\ Cardinality(DOMAIN mapping') = Cardinality(Accepted')
             /\ \A i \in DOMAIN calls' : \A j \in DOMAIN calls' :
                   (calls'[i].ret /\ calls'[j].ret /\ calls'[i].cls = calls'[j].cls)
                      => mapping'[calls'[i].cls] = mapping'[calls'[j].cls]]_vars

\* C3 witness: a non-empty class was accepted twice, another class was
\* accepted too, and the builder was built
DuplicateAddIsIdempotentWitness ==
    /\ built
    /\ \E i \in DOMAIN calls : \E j \in DOMAIN calls :
          /\ i < j
          /\ calls[i].cls = calls[j].cls
          /\ calls[i].cls # {}
          /\ calls[i].ret
          /\ calls[j].ret
    /\ Cardinality(DOMAIN mapping) = 2

\* C4: in the mapping build_with_mapping returns, a committed class with
\* more glyphs has a smaller id than one with fewer, and of two classes with
\* the same number of glyphs the one with the smaller minimum glyph has the
\* smaller id.
LargerClassesGetLowerIds ==
    built =>
       /\ classes \subseteq DOMAIN mapping
       /\ \A a \in classes : \A b \in classes :
             /\ Cardinality(a) > Cardinality(b) => mapping[a] < mapping[b]
             /\ (Cardinality(a) = Cardinality(b) /\ a # {} /\ b # {} /\ Min(a) < Min(b))
                   => mapping[a] < mapping[b]

\* C4 witness: built from classes submitted against the final order: the
\* first submitted is smaller than a later one, and two of equal size were
\* submitted with the larger minimum first
LargerClassesGetLowerIdsWitness ==
    /\ built
    /\ \E i \in DOMAIN calls : \E j \in DOMAIN calls :
          /\ i < j /\ calls[i].ret /\ calls[j].ret
          /\ Cardinality(calls[i].cls) < Cardinality(calls[j].cls)
    /\ \E i \in DOMAIN calls : \E j \in DOMAIN calls :
          /\ i < j /\ calls[i].ret /\ calls[j].ret
          /\ calls[i].cls # {} /\ calls[j].cls # {}
          /\ Cardinality(calls[i].cls) = Cardinality(calls[j].cls)
          /\ Min(calls[i].cls) > Min(calls[j].cls)

\* C5: with n distinct committed classes the ids of the mapping are exactly
\* 1..n for a builder made by new() and 0..n-1 for one made by
\* new_using_class_0(), each id used by exactly one class.
IdsAreConsecutive ==
    built =>
       LET n == Cardinality(classes)
       IN  /\ DOMAIN mapping = classes
           /\ {mapping[cls] : cls \in DOMAIN mapping}
                 = IF use_class_0 THEN 0..(n - 1) ELSE 1..n
           /\ \A a \in DOMAIN mapping : \A b \in DOMAIN mapping :
                 mapping[a] = mapping[b] => a = b

\* C5 witness: a class-0 builder built with at least two classes after a
\* rejected or repeated submission
IdsAreConsecutiveWitness ==
    /\ built
    /\ use_class_0
    /\ Cardinality(classes) >= 2
    /\ Len(calls) > Cardinality(classes)

\* C6: the keys of the mapping are exactly the distinct classes checked_add
\* returned true for; a class it returned false for is never a key.
MappingKeysAreAcceptedClasses ==
    built =>
       /\ DOMAIN mapping = Accepted
       /\ \A cls \in Rejected : cls \notin DOMAIN mapping
       /\ Cardinality(DOMAIN mapping) = Cardinality(Accepted)

\* C6 witness: three calls answered true, false, true, the rejected class
\* overlapping the first, and a mapping of exactly two classes (as for
\* {1,2,3,4}, {1,3,4,5,6,7}, {8,9})
MappingKeysAreAcceptedClassesWitness ==
    /\ built
    /\ Len(calls) = 3
    /\ calls[1].ret /\ ~calls[2].ret /\ calls[3].ret
    /\ calls[2].cls \cap calls[1].cls # {}
    /\ calls[2].cls \ calls[1].cls # {}
    /\ Cardinality(DOMAIN mapping) = 2

(***************************************************************************)
(* Properties of the ClassDef encoder (checked under SpecEncoder).         *)
(***************************************************************************)
\* glyphs g and g + 1 both have a class in map m, and the same one
SameClassAsNext(m, g) == g \in DOMAIN m /\ (g + 1) \in DOMAIN m /\ m[g] = m[g + 1]

\* the maximal runs of consecutive glyph ids that share one class, read off
\* the map: a run starts where the glyph before has no or another class and
\* ends where the glyph after has no or another class
MaximalRuns(m) ==
    {[start_glyph_id |-> a, end_glyph_id |-> b, class |-> m[a]] :
        <<a, b>> \in {r \in (DOMAIN m) \X (DOMAIN m) :
                        /\ r[1] <= r[2]
                        /\ \A g \in r[1]..(r[2] - 1) : SameClassAsNext(m, g)
                        /\ ~SameClassAsNext(m, r[1] - 1)
                        /\ ~SameClassAsNext(m, r[2])}}

\* the runs in ascending glyph order
RunsAscending(m) ==
    CHOOSE s \in Orderings(MaximalRuns(m)) :
        \A i \in 1..(Len(s) - 1) : s[i].end_glyph_id < s[i + 1].start_glyph_id

\* the positions of the input that give glyph g a class, and those that
\* give it a nonzero class
PairsOf(g) == {i \in DOMAIN enc_input : enc_input[i][1] = g}

NonzeroPairsOf(g) == {i \in PairsOf(g) : enc_input[i][2] # 0}

\* the glyphs looked up: those of the inputs and one beyond them
LookedUp == 0..(MaxGid + 1)

\* C7: an encoder whose mapping is empty (no entries, or only class-0
\* entries, which are elided) builds format 2 with no range record.
EmptyMappingBuildsFormat2 ==
    (enc_pc = "built" /\ \A i \in DOMAIN enc_input : enc_input[i][2] = 0)
       => enc_out = [format |-> 2, class_range_records |-> <<>>]

\* C7 witness: built from an iterator that holds class-0 entries only
EmptyMappingBuildsFormat2Witness ==
    /\ enc_pc = "built"
    /\ Len(enc_input) >= 2
    /\ \A i \in DOMAIN enc_input : enc_input[i][2] = 0

\* C8: a non-empty mapping is built as format 1 exactly if
\* 6 + 2 * (last - first + 1) < 4 + 6 * R, R the number of maximal runs of
\* consecutive glyphs of one class, and as format 2 otherwise, its records
\* being those runs in ascending order.
Format1IffStrictlySmaller ==
    (enc_pc = "built" /\ DOMAIN items # {}) =>
       LET first == Min(DOMAIN items)
           last == Max(DOMAIN items)
           R == Cardinality(MaximalRuns(items))
       IN  /\ enc_out.format \in {1, 2}
           /\ enc_out.format = 1 <=> 6 + 2 * (last - first + 1) < 4 + 6 * R
           /\ enc_out.format = 2 =>
                 enc_out.class_range_records = RunsAscending(items)

\* C8 witness: both formats have the same size and format 2 is built
Format1IffStrictlySmallerWitness ==
    /\ enc_pc = "built"
    /\ DOMAIN items # {}
    /\ 6 + 2 * (Max(DOMAIN items) - Min(DOMAIN items) + 1)
          = 4 + 6 * Cardinality(MaximalRuns(items))
    /\ enc_out.format = 2
    /\ Len(enc_out.class_range_records) = Cardinality(MaximalRuns(items))

\* C9 as stated: looking up a glyph gives the class given for it when that
\* class is nonzero, and 0 when the glyph was absent or was given class 0
\* (for a glyph the input names more than once, the class given for it is
\* read as that of its last pair, as in any collected map).
RoundTripOfGivenClass ==
    enc_pc = "built" =>
       \A g \in LookedUp :
          ClassDefGet(enc_out, g) =
             IF PairsOf(g) = {} THEN 0
             ELSE enc_input[Max(PairsOf(g))][2]

\* C9 as amended: looking up a glyph gives the class of the last pair that
\* gives it a nonzero class, and 0 when no pair gives it a nonzero class
\* (absent, or given class 0 only), in either format, gaps included.
RoundTripOfLastNonzeroPair ==
    enc_pc = "built" =>
       \A g \in LookedUp :
          ClassDefGet(enc_out, g) =
             IF NonzeroPairsOf(g) = {} THEN 0
             ELSE enc_input[Max(NonzeroPairsOf(g))][2]

\* C9 witness: a format 1 table with a gap between first and last glyph,
\* built from an input that gives one glyph a nonzero class and then class 0
RoundTripOfLastNonzeroPairWitness ==
    /\ enc_pc = "built"
    /\ enc_out.format = 1
    /\ \E g \in EncGlyphs :
          /\ g \notin DOMAIN items
          /\ Min(DOMAIN items) < g
          /\ g < Max(DOMAIN items)
    /\ \E i \in DOMAIN enc_input : \E j \in DOMAIN enc_input :
          /\ i < j
          /\ enc_input[i][1] = enc_input[j][1]
          /\ enc_input[i][2] # 0
          /\ enc_input[j][2] = 0

(***************************************************************************)
(* Properties of CoverageTableBuilder (checked under SpecCoverage).        *)
(***************************************************************************)
\* the number of maximal runs of consecutive glyph ids of a glyph sequence:
\* the positions that do not continue the glyph before
RunCount(v) ==
    Cardinality({i \in DOMAIN v : i = 1 \/ v[i] # v[i - 1] + 1})

\* C10: build emits format 2 exactly if 4 + 6 * runs < 4 + 2 * count, and
\* otherwise (a tie and the empty builder included) format 1, whose glyph
\* array is the builder's sorted glyph sequence.
CoverageFormat2IffStrictlySmaller ==
    cov_pc = "built" =>
       /\ cov_out.format \in {1, 2}
       /\ cov_out.format = 2 <=> 4 + 6 * RunCount(glyphs) < 4 + 2 * Len(glyphs)
       /\ cov_out.format = 1 =>
             /\ cov_out.glyph_array = glyphs
             /\ \A i \in 1..(Len(glyphs) - 1) : glyphs[i] < glyphs[i + 1]

\* C10 witness: a non-empty builder for which both formats have the same
\* size, built as format 1
CoverageFormat2IffStrictlySmallerWitness ==
    /\ cov_pc = "built"
    /\ glyphs # <<>>
    /\ 4 + 6 * RunCount(glyphs) = 4 + 2 * Len(glyphs)
    /\ cov_out.format = 1

\* C11: whatever the order and the route (from_glyphs, a collected iterator,
\* add) by which glyph ids reach the builder, its glyph sequence is the
\* distinct ids given, ascending: it depends on the set given only.
InsertionOrderIndependent ==
    cov_pc # "new" => glyphs = Ascending(cov_given)

\* C11 witness: a builder collected from an iterator, then given two absent
\* glyphs by add, the second one smaller than the first
InsertionOrderIndependentWitness ==
    /\ cov_ctor = "from_iter"
    /\ Len(cov_added) = 2
    /\ cov_added[1].inserted /\ cov_added[2].inserted
    /\ cov_added[2].glyph < cov_added[1].glyph
    /\ Cardinality(cov_given) >= 4

\* C12: once constructed, and after every add, the glyph sequence is strictly
\* ascending: sorted, and without repetitions.
GlyphsStrictlyAscending ==
    cov_pc # "new" => \A i \in 1..(Len(glyphs) - 1) : glyphs[i] < glyphs[i + 1]

\* C12 witness: a builder made by from_glyphs that holds three glyphs or
\* more after an add inserted a glyph before the last one
GlyphsStrictlyAscendingWitness ==
    /\ cov_ctor = "from_glyphs"
    /\ cov_pc = "live"
    /\ cov_added # <<>>
    /\ cov_added[Len(cov_added)].inserted
    /\ cov_added[Len(cov_added)].ret + 1 < Len(glyphs)
    /\ Len(glyphs) >= 3

\* C13: add(g) returns the number of glyphs of the builder smaller than g,
\* which is the position of g after the call; when g was present the
\* sequence is unchanged; and when the call inserts a glyph smaller than the
\* glyph of the add before it, the index returned by that add is no longer
\* the position of its glyph, which has moved one place up.
AddReturnsRank ==
    [][cov_pc = "live" /\ cov_pc' = "live" =>
          LET a == cov_added'[Len(cov_added')]
              smaller == {x \in Range(glyphs') : x < a.glyph}
          IN  /\ a.ret = Cardinality(smaller)
              /\ glyphs'[a.ret + 1] = a.glyph
              /\ a.inserted <=> a.glyph \notin Range(glyphs)
              /\ ~a.inserted => glyphs' = glyphs
              /\ a.inserted => Range(glyphs') = Range(glyphs) \cup {a.glyph}
              /\ Len(cov_added') = 2 /\ a.inserted /\ a.glyph < cov_added'[1].glyph =>
                    /\ glyphs'[cov_added'[1].ret + 1] # cov_added'[1].glyph
                    /\ glyphs'[cov_added'[1].ret + 2] = cov_added'[1].glyph]_vars

\* C13 witness: the index an add returned is stale after the next add
\* inserted a smaller glyph
AddReturnsRankWitness ==
    /\ Len(cov_added) = 2
    /\ cov_added[2].inserted
    /\ cov_added[2].glyph < cov_added[1].glyph
    /\ glyphs[cov_added[1].ret + 1] # cov_added[1].glyph
    /\ glyphs[cov_added[2].ret + 1] = cov_added[2].glyph

(***************************************************************************)
(* Properties of LookupBuilder (checked under SpecLookup).                 *)
(***************************************************************************)
\* C14: a LookupBuilder made by any of its constructors (new,
\* new_with_lookups with any vector, the derived Default) holds at least one
\* subtable builder, whatever force_subtable_break, last_mut and convert
\* calls follow.
AlwaysAtLeastOneSubtable ==
    lk_pc = "live" => Len(subtables) >= 1

\* the rules of all subtable builders, in stored order
RECURSIVE AllRules(_)
AllRules(s) == IF s = <<>> THEN <<>> ELSE Head(s) \o AllRules(Tail(s))

\* the number of delta-list rules among the first k rules of a rule sequence
DeltaRulesBefore(rs, k) ==
    Cardinality({j \in 1..k : rs[j].kind = "Deltas"})

\* C15: the built Lookup carries the builder's flags and mark set; it has one
\* physical subtable per rule, in the stored order of the builders and of
\* their rules; and the delta lists were registered in that same order after
\* whatever the store held: the k-th rule, if a delta list, holds the handle
\* of the registration that follows those of all rules before it.
LookupBuildKeepsOrder ==
    lk_pc = "built" =>
       LET rs == AllRules(subtables)
           prior == Len(var_store) - DeltaRulesBefore(rs, Len(rs))
       IN  /\ lookup.lookup_flag = flags
           /\ lookup.mark_filtering_set = mark_set
           /\ Len(lookup.subtables) = Len(rs)
           /\ prior >= 0
           /\ \A k \in DOMAIN rs :
                 IF rs[k].kind = "Deltas"
                 THEN LET id == prior + DeltaRulesBefore(rs, k - 1)
                      IN  /\ lookup.subtables[k].value = Some(PendingVariationIndex(id))
                          /\ var_store[id + 1] = [deltas |-> rs[k].deltas, temp_id |-> id]
                 ELSE lookup.subtables[k].value = None

\* C15 witness: a Lookup built from two subtable builders, the first of two
\* rules, both builders registering a delta list, in a store that held a
\* registration before
LookupBuildKeepsOrderWitness ==
    /\ lk_pc = "built"
    /\ Len(subtables) = 2
    /\ Len(subtables[1]) = 2
    /\ \E k \in DOMAIN subtables[1] : subtables[1][k].kind = "Deltas"
    /\ \E k \in DOMAIN subtables[2] : subtables[2][k].kind = "Deltas"
    /\ Len(var_store) >= 3
    /\ mark_set # "None"

(***************************************************************************)
(* Properties of DeviceOrDeltas::build (checked under SpecDeferred).       *)
(***************************************************************************)
\* C16: finalizing a deferred value gives None for an absent value and the
\* same Device for a literal one, the store being left as it was; for a delta
\* list the store gains exactly one registration, of that list, and the
\* result is the pending variation index of the handle of that registration.
DeferredBuildResult ==
    [][dod_in' # dod_in \/ dod_out' # dod_out =>
          CASE dod_in'.kind = "None" ->
                  dod_out' = None /\ var_store' = var_store
            [] dod_in'.kind = "Device" ->
                  /\ dod_out' = Some([variant |-> "Device", device |-> dod_in'.device])
                  /\ var_store' = var_store
            [] dod_in'.kind = "Deltas" ->
                  /\ Len(var_store') = Len(var_store) + 1
                  /\ SubSeq(var_store', 1, Len(var_store)) = var_store
                  /\ var_store'[Len(var_store')].deltas = dod_in'.deltas
                  /\ dod_out' = Some(PendingVariationIndex(var_store'[Len(var_store')].temp_id))]_vars

\* C16 witness: a delta list finalized in a store that held registrations,
\* its result wrapping the handle of the last registration
DeferredBuildResultWitness ==
    /\ dod_in.kind = "Deltas"
    /\ Len(var_store) >= 2
    /\ var_store[Len(var_store)].deltas = dod_in.deltas
    /\ var_store[1].deltas # dod_in.deltas
    /\ dod_out = Some(PendingVariationIndex(var_store[Len(var_store)].temp_id))

(***************************************************************************)
(* Properties of the layout closure (checked under SpecClosure).           *)
(***************************************************************************)
\* a step that processes a LangSys item: one call of Script::collect_features'
\* loop body
IsLangSysStep == lang_ix' = lang_ix + 1

\* what a LangSys table has to contribute: its required feature index unless
\* the 0xFFFF sentinel, and every feature index of its list
Contribution(ls) ==
    {x \in {ls.required_feature_index} : x # NO_REQUIRED_FEATURE}
        \cup Range(ls.feature_indices)

\* the quota a LangSys table is charged: 1 for a required feature, and the
\* length of its list
Charge(ls) ==
    (IF ls.required_feature_index # NO_REQUIRED_FEATURE THEN 1 ELSE 0)
        + Len(ls.feature_indices)

\* C17: without a feature filter, a LangSys visited for the first time whose
\* charge fits in what is left of the feature quota adds to the output set
\* exactly its required feature index (unless 0xFFFF) and every index of its
\* list, and nothing else.
NoFilterFirstVisitAddsAll ==
    [][/\ IsLangSysStep
       /\ item'.kind = "table"
       /\ item'.read
       /\ ~c.feature_indices_filter.some
       /\ c.feature_index_count + Charge(lang_sys') <= MAX_FEATURE_INDICES
       => c'.feature_indices = c.feature_indices \cup Contribution(lang_sys')]_vars

\* C17 witness: with a scripts argument and no languages argument, the
\* default LangSys of the first Script, required index 3 and list [3, 5, 7],
\* has given {3, 5, 7}
NoFilterFirstVisitAddsAllWitness ==
    /\ scripts = "Some"
    /\ languages = "None"
    /\ ~features.some
    /\ cur_script = 1
    /\ lang_ix = 1
    /\ item.kind = "table" /\ item.read
    /\ lang_sys.required_feature_index = 3
    /\ lang_sys.feature_indices = <<3, 5, 7>>
    /\ c.feature_indices = {3, 5, 7}
    /\ c.feature_index_count = 4

\* C18: a LangSys whose table was read is not read again in the query,
\* whatever record leads to its offset: the visit leaves the output set and
\* the quota as they were; the offsets remembered are those of the tables
\* read; and in a Script table met again through another record no LangSys
\* changes the output set.
SecondVisitIsNoOp ==
    [][IsLangSysStep /\ item'.kind = "table" =>
          /\ c'.visited_langsys = read_offsets'
          /\ item'.offset \in read_offsets \/ replay =>
                /\ ~item'.read
                /\ c'.feature_indices = c.feature_indices
                /\ c'.feature_index_count = c.feature_index_count]_vars

\* C18 witness: in a Script met for the first time, the record after a
\* record whose LangSys was read resolved to the same offset and was not
\* read, the output set being non-empty
SecondVisitIsNoOpWitness ==
    /\ ~replay
    /\ lang_ix >= 2
    /\ item.kind = "table" /\ ~item.read
    /\ cur_items[lang_ix - 1].kind = "table"
    /\ cur_items[lang_ix - 1].offset = item.offset
    /\ item.offset \in read_offsets
    /\ c.langsys_count = 2
    /\ c.feature_indices # {}

\* C19: with a feature filter the allow-set of the context is the set of
\* feature-list positions whose tag is in the filter, the output set is a
\* subset of it, and a LangSys that was read has contributed each of its
\* required and listed indices that are allowed, the quota not being
\* exceeded.
FilterAdmitsAllowed ==
    c.feature_indices_filter.some =>
       LET allow == {idx \in 0..(Len(feature_list) - 1) :
                        feature_list[idx + 1] \in features.value}
       IN  /\ c.feature_indices_filter.value = allow
           /\ c.feature_indices \subseteq allow
           /\ /\ item.level = "langsys"
              /\ item.kind = "table"
              /\ item.read
              /\ c.feature_index_count <= MAX_FEATURE_INDICES
              => (Contribution(lang_sys) \cap allow) \subseteq c.feature_indices

\* C20: the query returns an error exactly when an item is a record whose
\* offset the accessor reports as malformed, and the error returned is that
\* one; after any other item (an absent tag or default LangSys, a table,
\* whatever the counters have reached) the loop goes on; Ok is returned only
\* when the loop over the Scripts ends.
ErrorsOnlyFromMalformedOffsets ==
    [][/\ steps' # steps \/ IsLangSysStep =>
             IF item'.kind = "malformed"
             THEN result' = Err(item'.err) /\ clo_pc' = "done"
             ELSE /\ result' = [kind |-> "pending"]
                  /\ clo_pc' = IF item'.kind = "absent" THEN clo_pc ELSE "langs"
       /\ result'.kind = "Err" => item'.kind = "malformed" /\ result' = Err(item'.err)
       /\ result'.kind = "Ok" /\ result.kind # "Ok" =>
             clo_pc = "scripts" /\ steps' = steps /\ item' = item]_vars

\* C20 witness: a query that returned Ok after the LangSys ceiling and the
\* feature quota were exceeded and a LangSys not read before was dropped
ErrorsOnlyFromMalformedOffsetsWitness ==
    /\ result = Ok
    /\ c.langsys_count > MAX_LANGSYS
    /\ c.feature_index_count > MAX_FEATURE_INDICES
    /\ item.kind = "table"
    /\ ~item.read
    /\ item.offset \notin read_offsets

(***************************************************************************)
(* Termination and resources of the layout closure (checked under          *)
(* SpecClosureTerminating).                                                *)
(***************************************************************************)
\* C21: a query over a finite hierarchy returns, whatever the counters have
\* reached and whichever records resolve to the same offsets, and at every
\* step an index added to the output set is the required feature index or a
\* listed feature index of the LangSys table read in that step: the output
\* is a subset of what the LangSys tables reached have to contribute.
ClosureTerminatesWithPartialResult ==
    /\ <>(clo_pc = "done")
    /\ [][c'.feature_indices \subseteq
             c.feature_indices \cup Contribution(lang_sys')]_vars

\* C21 witness: a query has returned Ok after more LangSys records than the
\* ceiling, a Script table met again, and a list that went over the feature
\* quota and was dropped, with a non-empty output set
ClosureTerminatesWithPartialResultWitness ==
    /\ clo_pc = "done"
    /\ result = Ok
    /\ c.langsys_count > MAX_LANGSYS
    /\ c.feature_index_count > MAX_FEATURE_INDICES
    /\ replay
    /\ c.feature_indices = {3}

(***************************************************************************)
(* Determinism of ClassDefBuilder (checked under SpecClassDefBuilder).      *)
(***************************************************************************)
\* the classes that come before cls in the order (size descending, minimum
\* glyph ascending)
ClassesBefore(cls) ==
    {d \in classes :
        \/ Cardinality(d) > Cardinality(cls)
        \/ Cardinality(d) = Cardinality(cls) /\ first_glyph(d) < first_glyph(cls)}

\* the id of a class as a function of the committed set alone
IdOf(cls) == (IF use_class_0 THEN 0 ELSE 1) + Cardinality(ClassesBefore(cls))

\* the (glyph, id) pairs of the committed set, the glyphs ascending
PairsByGlyph ==
    LET gids == Ascending(all_glyphs)
    IN  [i \in DOMAIN gids |->
            <<gids[i], IdOf(CHOOSE cls \in classes : gids[i] \in cls)>>]

\* C26: whatever the order of the checked_add calls that committed a set of
\* classes, and whatever order the sort and the hash containers go through
\* them in, build_with_mapping returns the same mapping and the same
\* ClassDef, those given by the committed set alone; no two different
\* committed classes have the same sort key.
ClassIdsDependOnCommittedSetOnly ==
    /\ \A a \in classes : \A b \in classes :
          a # b => \/ Cardinality(a) # Cardinality(b)
                   \/ first_glyph(a) # first_glyph(b)
    /\ built =>
          /\ mapping = [cls \in classes |-> IdOf(cls)]
          /\ class_def = build(from_iter(PairsByGlyph))

\* C26 witness: built after three classes of which two have the same size
\* were committed in the reverse of the order of their ids
ClassIdsDependOnCommittedSetOnlyWitness ==
    /\ built
    /\ Len(calls) = 3
    /\ \A i \in 1..3 : calls[i].ret
    /\ mapping[calls[1].cls] > mapping[calls[2].cls]
    /\ mapping[calls[2].cls] > mapping[calls[3].cls]
    /\ Cardinality(calls[1].cls) = Cardinality(calls[2].cls)

(***************************************************************************)
(* Properties of the counters and ceilings of CollectFeaturesContext       *)
(* (checked under SpecContext).                                            *)
(***************************************************************************)
\* a step is a call on the context
IsContextCall == ctx_calls' = ctx_calls + 1

\* C22: once a counter has gone over its ceiling, a later call of
\* script_visited (resp. langsys_visited) returns true and leaves the
\* context as it was, a later call of feature_indices_limit_exceeded that
\* asks for at least one index returns true, and a later
\* LangSys::collect_features inserts nothing (and changes nothing at all if
\* it is the LangSys ceiling); and no step removes an index from the output
\* set.
DroppedOnceExceeded ==
    [][/\ c.feature_indices \subseteq c'.feature_indices
       /\ IsContextCall =>
             /\ /\ "script_count" \in ever_exceeded
                /\ ctx_call'.method = "script_visited"
                => ctx_call'.ret /\ c' = c
             /\ /\ "langsys_count" \in ever_exceeded
                /\ ctx_call'.method \in {"langsys_visited", "collect_features"}
                => (ctx_call'.method = "langsys_visited" => ctx_call'.ret) /\ c' = c
             /\ /\ "feature_index_count" \in ever_exceeded
                /\ ctx_call'.method = "feature_indices_limit_exceeded"
                /\ ctx_call'.arg >= 1
                => ctx_call'.ret
             /\ /\ "feature_index_count" \in ever_exceeded
                /\ ctx_call'.method = "collect_features"
                => c'.feature_indices = c.feature_indices]_vars

\* C22 witness: a first LangSys with a required feature and a list as long
\* as the quota took the counter over the ceiling and gave its required
\* index; a second LangSys, at another offset, with list [3, 5, 7], was
\* visited and gave nothing
DroppedOnceExceededWitness ==
    /\ ctx_calls = 2
    /\ ctx_call.method = "collect_features"
    /\ lang_sys.feature_indices = <<3, 5, 7>>
    /\ c.visited_langsys = {1, 2}
    /\ c.feature_index_count > MAX_FEATURE_INDICES
    /\ c.feature_indices = {3}

\* C23: no call of script_visited, langsys_visited or
\* feature_indices_limit_exceeded, whatever its argument, lowers a counter
\* of the context: script_count, langsys_count and feature_index_count are
\* each at least what they were before the call.
CountersNeverDecrease ==
    [][IsContextCall =>
          /\ c'.script_count >= c.script_count
          /\ c'.langsys_count >= c.langsys_count
          /\ c'.feature_index_count >= c.feature_index_count]_vars

\* C24: the counters stay within 16 bits. When the sum of feature_index_count
\* and the count of a call does not fit in a u16, the call leaves the counter
\* at MAX_FEATURE_INDICES and returns true; a counter that has reached
\* MAX_FEATURE_INDICES stays at or above it, and from there every call with
\* a count of at least 1 returns true. script_count and langsys_count stop
\* one above their ceilings, far from the largest u16.
CountersOverflowSafe ==
    [][/\ c'.script_count <= MAX_SCRIPTS + 1
       /\ c'.langsys_count <= MAX_LANGSYS + 1
       /\ c'.script_count + 1 < U16_MODULUS
       /\ c'.langsys_count + 1 < U16_MODULUS
       /\ c'.feature_index_count < U16_MODULUS
       /\ c.feature_index_count >= MAX_FEATURE_INDICES
             => c'.feature_index_count >= MAX_FEATURE_INDICES
       /\ IsContextCall /\ ctx_call'.method = "feature_indices_limit_exceeded" =>
             /\ c.feature_index_count + ctx_call'.arg >= U16_MODULUS
                   => /\ c'.feature_index_count = MAX_FEATURE_INDICES
                      /\ ctx_call'.ret
             /\ c.feature_index_count >= MAX_FEATURE_INDICES /\ ctx_call'.arg >= 1
                   => ctx_call'.ret]_vars

\* C24 witness: a call with count 1 on a counter that was over the ceiling has
\* returned true and left the counter at the ceiling: the sum overflowed
CountersOverflowSafeWitness ==
    /\ ctx_call.method = "feature_indices_limit_exceeded"
    /\ ctx_call.arg = 1
    /\ ctx_call.ret
    /\ "feature_index_count" \in ever_exceeded
    /\ c.feature_index_count = MAX_FEATURE_INDICES

\* the indices a LangSys table contributes if the quota is applied to each
\* index in turn, from a counter at count: the required feature index if one
\* more fits, then the leading indices of the list that still fit
PerIndexContribution(ls, count) ==
    LET required == ls.required_feature_index # NO_REQUIRED_FEATURE
        after == IF required THEN count + 1 ELSE count
    IN  {x \in {ls.required_feature_index} : required /\ after <= MAX_FEATURE_INDICES}
           \cup {ls.feature_indices[i] : i \in {j \in DOMAIN ls.feature_indices :
                                                   after + j <= MAX_FEATURE_INDICES}}

\* C25: without a feature filter, a LangSys visited for the first time is
\* charged index by index in list order, the required feature index first: it
\* adds to the output set its required index if that fits in the quota, and
\* of its list exactly the leading indices that fit, the rest being dropped.
QuotaAppliedPerIndex ==
    [][/\ IsContextCall
       /\ ctx_call'.method = "collect_features"
       /\ ~c.feature_indices_filter.some
       /\ c.langsys_count <= MAX_LANGSYS
       /\ lang_sys'.offset \notin c.visited_langsys
       => c'.feature_indices =
             c.feature_indices \cup PerIndexContribution(lang_sys', c.feature_index_count)]_vars

=============================================================================
